---- MODULE Spec2Model ----
(***************************************************************************)
(* Proposal evaluation and commit application pipeline of the MLS client   *)
(* (aws-mls/src/group/proposal_filter/filtering.rs): ProposalApplier,      *)
(* the filter rules, the filter strategies and the batch tree edit         *)
(* accumulator.  The ratchet tree, the proposal bundle and the leaf /      *)
(* key-package validators live outside the listed sources and are modelled *)
(* from their specification.                                               *)
(***************************************************************************)
EXTENDS Integers, Sequences, FiniteSets, TLC

(***************************************************************************)
(* Bounds                                                                  *)
(***************************************************************************)
\* longest proposal bundle handed to apply_proposals
MaxLen == 2

(***************************************************************************)
(* Small helpers                                                           *)
(***************************************************************************)
Min(S) == CHOOSE x \in S : \A y \in S : x <= y

Max(S) == CHOOSE x \in S : \A y \in S : y <= x

\* Option<T> is a set with at most one element
None == {}

Some(x) == {x}

Unwrap(o) == CHOOSE x \in o : TRUE

\* the numbers of a finite set in ascending order
RECURSIVE SeqOfSet(_)
SeqOfSet(S) == IF S = {} THEN << >> ELSE LET m == Min(S) IN << m >> \o SeqOfSet(S \ {m})

\* the subsequence of s at the positions of K, in order
SubSeqAt(s, K) == LET idx == SeqOfSet(K) IN [j \in 1..Len(idx) |-> s[idx[j]]]

(***************************************************************************)
(* Senders, proposal types, errors                                         *)
(***************************************************************************)
Member(i) == [kind |-> "Member", idx |-> i]

External(i) == [kind |-> "External", idx |-> i]

NewMemberCommit == [kind |-> "NewMemberCommit", idx |-> 0]

NewMemberProposal == [kind |-> "NewMemberProposal", idx |-> 0]

SenderKinds == {"Member", "External", "NewMemberCommit", "NewMemberProposal"}

ProposalTypes == {"ADD", "UPDATE", "REMOVE", "PSK", "RE_INIT", "EXTERNAL_INIT",
                  "GROUP_CONTEXT_EXTENSIONS", "CUSTOM"}

NoSender == [kind |-> "None", idx |-> 0]

\* ProposalFilterError: one record shape for every variant
Error(name) == [name |-> name, ptype |-> "", sender |-> NoSender, by_ref |-> FALSE,
                n |-> 0, m |-> 0, inner |-> ""]

InvalidProposalTypeForSender(t, s, r) ==
    [Error("InvalidProposalTypeForSender") EXCEPT !.ptype = t, !.sender = s, !.by_ref = r]

ErrorN(name, n) == [Error(name) EXCEPT !.n = n]

ErrorInner(name, inner) == [Error(name) EXCEPT !.inner = inner]

\* Result<(), E>
Ok == [ok |-> TRUE, err |-> Error("")]

Err(e) == [ok |-> FALSE, err |-> e]

\* Result::and
And(r1, r2) == IF r1.ok THEN r2 ELSE r1

(***************************************************************************)
(* Leaves, extensions, capabilities                                        *)
(***************************************************************************)
BlankLeaf == [blank |-> TRUE, sid |-> 0, hpke |-> 0, exts |-> {}, props |-> {},
              src |-> "None", sig_ok |-> FALSE, not_before |-> 0, not_after |-> 0]

Leaf(sid, hpke, exts, props, src) ==
    [blank |-> FALSE, sid |-> sid, hpke |-> hpke, exts |-> exts, props |-> props,
     src |-> src, sig_ok |-> TRUE, not_before |-> 1, not_after |-> 8]

\* extension types known to the protocol itself
DefaultExtensionTypes == {"APPLICATION_ID", "RATCHET_TREE", "REQUIRED_CAPABILITIES",
                          "EXTERNAL_PUB", "EXTERNAL_SENDERS"}

is_default(ext_type) == ext_type \in DefaultExtensionTypes

\* RequiredCapabilitiesExt
RequiredCapabilities(exts, props) == [exts |-> exts, props |-> props]

\* ExtensionList: the extension types it lists, the decoded required
\* capabilities and external senders (if present), and which of its entries
\* does not decode
ExtensionList(types, req, senders, undecodable) ==
    [types |-> types, req |-> req, senders |-> senders, undecodable |-> undecodable]

ExtensionList_new == ExtensionList({}, None, << >>, {})

ExtensionList_is_empty(l) == l.types = {}

\* ExtensionList::get_as::<RequiredCapabilitiesExt>() : Result<Option<_>, _>
get_as_required_capabilities(l) ==
    IF "REQUIRED_CAPABILITIES" \notin l.types THEN [ok |-> TRUE, err |-> Error(""), val |-> None]
    ELSE IF "REQUIRED_CAPABILITIES" \in l.undecodable
         THEN [ok |-> FALSE, err |-> Error("ExtensionError"), val |-> None]
         ELSE [ok |-> TRUE, err |-> Error(""), val |-> l.req]

\* ExtensionList::get_as::<ExternalSendersExt>() : Result<Option<_>, _>
get_as_external_senders(l) ==
    IF "EXTERNAL_SENDERS" \notin l.types THEN [ok |-> TRUE, err |-> Error(""), val |-> None]
    ELSE IF "EXTERNAL_SENDERS" \in l.undecodable
         THEN [ok |-> FALSE, err |-> Error("ExtensionError"), val |-> None]
         ELSE [ok |-> TRUE, err |-> Error(""), val |-> Some(l.senders)]

(***************************************************************************)
(* Adapters: identity provider, external PSK validator, cipher suite       *)
(***************************************************************************)
\* signing identities the identity provider accepts
AcceptedIdentities == 0..7

IdentityProvider_validate(sid, commit_time) ==
    IF sid \in AcceptedIdentities THEN Ok ELSE Err(ErrorInner("IdentityProviderError", "rejected"))

\* Result<bool, _>: the successor keeps the credential of the predecessor
IdentityProvider_valid_successor(pred, succ) ==
    IF pred \in AcceptedIdentities /\ succ \in AcceptedIdentities
    THEN [ok |-> TRUE, err |-> Error(""), val |-> (pred = succ)]
    ELSE [ok |-> FALSE, err |-> ErrorInner("RatchetTreeError", "CredentialValidationError"),
          val |-> FALSE]

\* external PSK ids the PSK store knows
KnownExternalPskIds == {1, 2}

ExternalPskIdValidator_validate(id) ==
    IF id \in KnownExternalPskIds THEN Ok ELSE Err(ErrorInner("PskIdValidationError", "unknown"))

kdf_extract_size == 2

(***************************************************************************)
(* Ratchet tree (TreeKemPublic): leaf slots 0..n-1 with n a power of two,  *)
(* parents at the odd node indices of the array layout                     *)
(***************************************************************************)
BlankParent == [blank |-> TRUE, unmerged |-> {}]

FilledParent == [blank |-> FALSE, unmerged |-> {}]

\* no tree at all
NoTree == [leaves |-> << >>, parents |-> << >>]

LeafCount(tree) == Cardinality(DOMAIN tree.leaves)

ParentNodes(n) == {x \in 1..(2 * n - 2) : x % 2 = 1}

Depth(n) == CHOOSE d \in 0..n : 2 ^ d = n

\* node index of the ancestor of leaf i at level k >= 1
Ancestor(i, k) == (2 ^ k - 1) + (i \div (2 ^ k)) * (2 ^ (k + 1))

DirectPath(i, n) == {Ancestor(i, k) : k \in 1..Depth(n)}

get_leaf_node(tree, i) ==
    IF i \in DOMAIN tree.leaves /\ ~tree.leaves[i].blank
    THEN [ok |-> TRUE, err |-> Error(""), val |-> tree.leaves[i]]
    ELSE [ok |-> FALSE, err |-> ErrorN("RatchetTreeError", i), val |-> BlankLeaf]

non_empty_leaves(tree) == {i \in DOMAIN tree.leaves : ~tree.leaves[i].blank}

\* every non-blank leaf lists the proposal type in its capabilities
can_support_proposal(tree, t) == \A i \in non_empty_leaves(tree) : t \in tree.leaves[i].props

BlankDirectPath(tree, i) ==
    [tree EXCEPT !.parents = [x \in DOMAIN tree.parents |->
        IF x \in DirectPath(i, LeafCount(tree)) THEN BlankParent ELSE tree.parents[x]]]

\* doubling the leaf capacity keeps every node at its index
ExtendTree(tree) ==
    LET n == LeafCount(tree)
    IN [leaves |-> [i \in 0..(2 * n - 1) |-> IF i < n THEN tree.leaves[i] ELSE BlankLeaf],
        parents |-> [x \in ParentNodes(2 * n) |->
                        IF x \in DOMAIN tree.parents THEN tree.parents[x] ELSE BlankParent]]

\* slip: the rightmost blank slot is taken
PlaceLeaf_rightmost(tree, leaf) ==
    LET blanks == {i \in DOMAIN tree.leaves : tree.leaves[i].blank}
        t == IF blanks = {} THEN ExtendTree(tree) ELSE tree
        free == {i \in DOMAIN t.leaves : t.leaves[i].blank}
        slot == CHOOSE i \in free : \A j \in free : j <= i
        path == DirectPath(slot, LeafCount(t))
    IN [index |-> slot,
        tree |-> [leaves |-> [t.leaves EXCEPT ![slot] = leaf],
                  parents |-> [x \in DOMAIN t.parents |->
                      IF x \in path /\ ~t.parents[x].blank
                      THEN [t.parents[x] EXCEPT !.unmerged = @ \cup {slot}]
                      ELSE t.parents[x]]]]

\* leftmost blank slot, after extending the tree when it is full
PlaceLeaf(tree, leaf) ==
    LET blanks == {i \in DOMAIN tree.leaves : tree.leaves[i].blank}
        t == IF blanks = {} THEN ExtendTree(tree) ELSE tree
        slot == Min({i \in DOMAIN t.leaves : t.leaves[i].blank})
        path == DirectPath(slot, LeafCount(t))
    IN [index |-> slot,
        tree |-> [leaves |-> [t.leaves EXCEPT ![slot] = leaf],
                  parents |-> [x \in DOMAIN t.parents |->
                      IF x \in path /\ ~t.parents[x].blank
                      THEN [t.parents[x] EXCEPT !.unmerged = @ \cup {slot}]
                      ELSE t.parents[x]]]]

\* the leaf shares its signing identity or its HPKE key with a leaf of `among`
Collides(tree, leaf, among) ==
    \E j \in among : ~tree.leaves[j].blank
                     /\ (tree.leaves[j].sid = leaf.sid \/ tree.leaves[j].hpke = leaf.hpke)

ReplaceLeaf(tree, i, leaf) == BlankDirectPath([tree EXCEPT !.leaves[i] = leaf], i)

\* TreeKemPublic::add_leaves: all or nothing
RECURSIVE add_leaves(_, _)
add_leaves(tree, leaves) ==
    IF leaves = << >> THEN [ok |-> TRUE, err |-> Error(""), tree |-> tree, indexes |-> << >>]
    ELSE LET leaf == Head(leaves)
         IN IF ~IdentityProvider_validate(leaf.sid, None).ok
            THEN [ok |-> FALSE, err |-> ErrorInner("RatchetTreeError", "CredentialValidationError"),
                  tree |-> tree, indexes |-> << >>]
            ELSE IF Collides(tree, leaf, DOMAIN tree.leaves)
            THEN [ok |-> FALSE, err |-> ErrorInner("RatchetTreeError", "DuplicateLeafData"),
                  tree |-> tree, indexes |-> << >>]
            ELSE LET placed == PlaceLeaf(tree, leaf)
                     rest == add_leaves(placed.tree, Tail(leaves))
                 IN IF rest.ok
                    THEN [rest EXCEPT !.indexes = << placed.index >> \o @]
                    ELSE [rest EXCEPT !.tree = tree]

(***************************************************************************)
(* Proposals and the proposal bundle                                       *)
(***************************************************************************)
NoPsk == [key_type |-> "", id |-> 0, nonce |-> << >>]

\* ProposalInfo<P>: sender, by-reference flag and the proposal itself
ProposalInfo(type, sender, by_ref) ==
    [type |-> type, sender |-> sender, by_ref |-> by_ref, leaf |-> BlankLeaf, to_remove |-> 0,
     psk |-> NoPsk, version |-> 0, ext |-> ExtensionList_new, ctype |-> ""]

AddProposal(sender, by_ref, leaf) == [ProposalInfo("ADD", sender, by_ref) EXCEPT !.leaf = leaf]

UpdateProposal(sender, by_ref, leaf) == [ProposalInfo("UPDATE", sender, by_ref) EXCEPT !.leaf = leaf]

RemoveProposal(sender, by_ref, i) == [ProposalInfo("REMOVE", sender, by_ref) EXCEPT !.to_remove = i]

PreSharedKeyProposal(sender, by_ref, key_type, id, nonce) ==
    [ProposalInfo("PSK", sender, by_ref) EXCEPT
        !.psk = [key_type |-> key_type, id |-> id, nonce |-> nonce]]

ReInitProposal(sender, by_ref, version) ==
    [ProposalInfo("RE_INIT", sender, by_ref) EXCEPT !.version = version]

ExternalInit(sender, by_ref) == ProposalInfo("EXTERNAL_INIT", sender, by_ref)

GroupContextExtensions(sender, by_ref, ext) ==
    [ProposalInfo("GROUP_CONTEXT_EXTENSIONS", sender, by_ref) EXCEPT !.ext = ext]

CustomProposal(sender, by_ref, ctype) ==
    [ProposalInfo("CUSTOM", sender, by_ref) EXCEPT !.ctype = ctype]

\* positions of the bundle that hold a proposal of the type, in bundle order
PositionsOf(bundle, T) == {k \in 1..Len(bundle) : bundle[k].type = T}

\* ProposalBundle::by_type / by_index
by_type(bundle, T) == SubSeqAt(bundle, PositionsOf(bundle, T))

\* position in the bundle of the i-th (from 0) proposal of the type
PositionOfIndex(bundle, T, i) == SeqOfSet(PositionsOf(bundle, T))[i + 1]

\* index within its type (from 0) of the proposal at position k
IndexOfPosition(bundle, k) ==
    Cardinality({j \in 1..(k - 1) : bundle[j].type = bundle[k].type})

\* ProposalBundle::remove::<P>(index)
remove(bundle, T, i) ==
    IF i < Cardinality(PositionsOf(bundle, T))
    THEN SubSeqAt(bundle, (1..Len(bundle)) \ {PositionOfIndex(bundle, T, i)})
    ELSE bundle

\* removes the indices of the sequence one after the other
RECURSIVE remove_each(_, _, _)
remove_each(bundle, T, indices) ==
    IF indices = << >> THEN bundle
    ELSE remove_each(remove(bundle, T, Head(indices)), T, Tail(indices))

\* slip: the indices are taken as they were collected, lowest first
Ascending(s) == s

Reverse(s) == [j \in 1..Len(s) |-> s[Len(s) + 1 - j]]

\* ProposalBundle::retain_by_type: f[k] is the closure's Result<bool, _> on
\* the proposal at position k; the first error in bundle order aborts
retain_by_type(bundle, T, f) ==
    LET pos == PositionsOf(bundle, T)
        errs == {k \in pos : ~f[k].ok}
        dropped == {k \in pos : f[k].ok /\ ~f[k].val}
    IN IF errs # {}
       THEN [ok |-> FALSE, err |-> f[Min(errs)].err, val |-> bundle]
       ELSE [ok |-> TRUE, err |-> Error(""), val |-> SubSeqAt(bundle, (1..Len(bundle)) \ dropped)]

proposal_types(bundle) == {bundle[k].type : k \in 1..Len(bundle)}

custom_proposal_types(bundle) == {bundle[k].ctype : k \in PositionsOf(bundle, "CUSTOM")}

clear_group_context_extensions(bundle) ==
    SubSeqAt(bundle, (1..Len(bundle)) \ PositionsOf(bundle, "GROUP_CONTEXT_EXTENSIONS"))

\* Option<&ProposalInfo<ExtensionList>>: the first one of the bundle
group_context_extensions_proposal(bundle) ==
    LET pos == PositionsOf(bundle, "GROUP_CONTEXT_EXTENSIONS")
    IN IF pos = {} THEN None ELSE Some(bundle[Min(pos)])

(***************************************************************************)
(* Filter strategies                                                       *)
(***************************************************************************)
Strategies == {"FailInvalidProposal", "IgnoreInvalidByRefProposal"}

\* slip: every invalid proposal is ignored
IgnoreInvalidByRefProposal_ignore_all(p) == TRUE

IgnoreInvalidByRefProposal_ignore(p) == p.by_ref

\* slip: by-reference proposals are ignored by this strategy too
FailInvalidProposal_ignore_by_ref(p) == p.by_ref

FailInvalidProposal_ignore(p) == FALSE

ignore(strategy, p) ==
    IF strategy = "IgnoreInvalidByRefProposal" THEN IgnoreInvalidByRefProposal_ignore(p)
    ELSE FailInvalidProposal_ignore(p)

\* Result<bool, _>: keep, drop, or abort with the rule's error
apply_strategy(strategy, p, r) ==
    IF r.ok THEN [ok |-> TRUE, err |-> Error(""), val |-> TRUE]
    ELSE IF ignore(strategy, p) THEN [ok |-> TRUE, err |-> Error(""), val |-> FALSE]
    ELSE [ok |-> FALSE, err |-> r.err, val |-> FALSE]

(***************************************************************************)
(* Leaf node and key package validators                                    *)
(***************************************************************************)
validate_required_capabilities(leaf, required_capabilities) ==
    IF \A rc \in required_capabilities : rc.exts \subseteq leaf.exts /\ rc.props \subseteq leaf.props
    THEN Ok
    ELSE Err(ErrorInner("RatchetTreeError", "MissingRequiredCapability"))

\* context is "KeyPackage", "Update" or "Commit"
LeafNodeValidator_check_if_valid(leaf, context, required_capabilities, commit_time) ==
    IF leaf.src # context THEN Err(ErrorInner("RatchetTreeError", "InvalidLeafSource"))
    ELSE IF context = "KeyPackage"
            /\ \E t \in commit_time : ~(leaf.not_before <= t /\ t <= leaf.not_after)
    THEN Err(ErrorInner("RatchetTreeError", "ExpiredLifetime"))
    ELSE IF ~leaf.sig_ok THEN Err(ErrorInner("RatchetTreeError", "InvalidSignature"))
    ELSE IF ~validate_required_capabilities(leaf, required_capabilities).ok
    THEN validate_required_capabilities(leaf, required_capabilities)
    ELSE IF ~IdentityProvider_validate(leaf.sid, commit_time).ok
    THEN Err(ErrorInner("RatchetTreeError", "CredentialRejected"))
    ELSE Ok

KeyPackageValidator_check_if_valid(leaf, required_capabilities, apply_lifetime_check) ==
    LeafNodeValidator_check_if_valid(leaf, "KeyPackage", required_capabilities,
                                     apply_lifetime_check)

\* ExternalSendersExt::verify_all
verify_all(senders, commit_time) ==
    IF \A k \in 1..Len(senders) : IdentityProvider_validate(senders[k], commit_time).ok
    THEN Ok
    ELSE Err(ErrorInner("IdentityProviderError", "rejected"))

(***************************************************************************)
(* TreeBatchEditAccumulator                                                *)
(***************************************************************************)
TreeBatchEditAccumulator_new(strategy, proposals) ==
    [strategy |-> strategy, proposals |-> proposals, new_leaf_indexes |-> << >>,
     removed_leaves |-> << >>, invalid_additions |-> {}, invalid_removals |-> {},
     invalid_updates |-> {}]

\* slip: the strategy is not consulted
TreeBatchEditAccumulator_apply_strategy_strict(acc, T, index, r) ==
    IF r.ok THEN Ok ELSE Err(r.err)

TreeBatchEditAccumulator_apply_strategy(acc, T, index, r) ==
    IF r.ok THEN Ok
    ELSE IF ignore(acc.strategy, by_type(acc.proposals, T)[index + 1]) THEN Ok
    ELSE Err(r.err)

\* r.val is the leaf index of the updated leaf
on_update(acc, index, r) ==
    LET acc1 == IF ~r.ok THEN [acc EXCEPT !.invalid_updates = @ \cup {index}] ELSE acc
    IN [acc |-> acc1, res |-> TreeBatchEditAccumulator_apply_strategy(acc1, "UPDATE", index, r)]

\* slip: the removed leaf is not kept
on_remove_unrecorded(acc, index, r) ==
    LET acc1 == IF r.ok THEN acc ELSE [acc EXCEPT !.invalid_removals = @ \cup {index}]
    IN [acc |-> acc1, res |-> TreeBatchEditAccumulator_apply_strategy(acc1, "REMOVE", index, r)]

\* r.val is the pair of the removed index and the leaf that was there
on_remove(acc, index, r) ==
    LET acc1 == IF r.ok THEN [acc EXCEPT !.removed_leaves = Append(@, r.val)]
                ELSE [acc EXCEPT !.invalid_removals = @ \cup {index}]
    IN [acc |-> acc1, res |-> TreeBatchEditAccumulator_apply_strategy(acc1, "REMOVE", index, r)]

\* slip: the index given to the added leaf is not kept
on_add_unrecorded(acc, index, r) ==
    LET acc1 == IF r.ok THEN acc ELSE [acc EXCEPT !.invalid_additions = @ \cup {index}]
    IN [acc |-> acc1, res |-> TreeBatchEditAccumulator_apply_strategy(acc1, "ADD", index, r)]

\* r.val is the leaf index given to the added leaf
on_add(acc, index, r) ==
    LET acc1 == IF r.ok THEN [acc EXCEPT !.new_leaf_indexes = Append(@, r.val)]
                ELSE [acc EXCEPT !.invalid_additions = @ \cup {index}]
    IN [acc |-> acc1, res |-> TreeBatchEditAccumulator_apply_strategy(acc1, "ADD", index, r)]

(***************************************************************************)
(* TreeKemPublic::batch_edit: updates, then removes, then adds; each       *)
(* outcome goes to the accumulator, whose error aborts the edit            *)
(***************************************************************************)
TreeError(inner) == ErrorInner("RatchetTreeError", inner)

\* an updated leaf must be unique among the leaves that stay: the leaf it
\* replaces and the leaves the batch removes do not count
UpdateOutcome(tree, i, leaf, slated) ==
    IF ~get_leaf_node(tree, i).ok THEN [ok |-> FALSE, err |-> TreeError("LeafNotFound"), val |-> i]
    ELSE IF Collides(tree, leaf, (DOMAIN tree.leaves) \ ({i} \cup slated))
    THEN [ok |-> FALSE, err |-> TreeError("DuplicateLeafData"), val |-> i]
    ELSE [ok |-> TRUE, err |-> Error(""), val |-> i]

RemoveOutcome(tree, i) ==
    IF ~get_leaf_node(tree, i).ok
    THEN [ok |-> FALSE, err |-> TreeError("LeafNotFound"), val |-> [index |-> i, leaf |-> BlankLeaf]]
    ELSE [ok |-> TRUE, err |-> Error(""), val |-> [index |-> i, leaf |-> tree.leaves[i]]]

AddOutcome(tree, leaf) ==
    IF ~IdentityProvider_validate(leaf.sid, None).ok
    THEN [ok |-> FALSE, err |-> TreeError("CredentialValidationError"), val |-> 0]
    ELSE IF Collides(tree, leaf, DOMAIN tree.leaves)
    THEN [ok |-> FALSE, err |-> TreeError("DuplicateLeafData"), val |-> 0]
    ELSE [ok |-> TRUE, err |-> Error(""), val |-> PlaceLeaf(tree, leaf).index]

RECURSIVE batch_edit_adds(_, _, _, _)
batch_edit_adds(tree, acc, additions, k) ==
    IF k > Len(additions) THEN [ok |-> TRUE, err |-> Error(""), tree |-> tree, acc |-> acc]
    ELSE LET r == AddOutcome(tree, additions[k])
             cb == on_add(acc, k - 1, r)
         IN IF ~cb.res.ok THEN [ok |-> FALSE, err |-> cb.res.err, tree |-> tree, acc |-> cb.acc]
            ELSE batch_edit_adds(IF r.ok THEN PlaceLeaf(tree, additions[k]).tree ELSE tree,
                                 cb.acc, additions, k + 1)

RECURSIVE batch_edit_removes(_, _, _, _, _)
batch_edit_removes(tree, acc, removals, additions, k) ==
    IF k > Len(removals) THEN batch_edit_adds(tree, acc, additions, 1)
    ELSE LET r == RemoveOutcome(tree, removals[k])
             cb == on_remove(acc, k - 1, r)
         IN IF ~cb.res.ok THEN [ok |-> FALSE, err |-> cb.res.err, tree |-> tree, acc |-> cb.acc]
            ELSE batch_edit_removes(IF r.ok THEN ReplaceLeaf(tree, removals[k], BlankLeaf) ELSE tree,
                                    cb.acc, removals, additions, k + 1)

RECURSIVE batch_edit_updates(_, _, _, _, _, _, _)
batch_edit_updates(tree, acc, updates, removals, additions, slated, k) ==
    IF k > Len(updates) THEN batch_edit_removes(tree, acc, removals, additions, 1)
    ELSE LET r == UpdateOutcome(tree, updates[k].index, updates[k].leaf, slated)
             cb == on_update(acc, k - 1, r)
         IN IF ~cb.res.ok THEN [ok |-> FALSE, err |-> cb.res.err, tree |-> tree, acc |-> cb.acc]
            ELSE batch_edit_updates(
                     IF r.ok THEN ReplaceLeaf(tree, updates[k].index, updates[k].leaf) ELSE tree,
                     cb.acc, updates, removals, additions, slated, k + 1)

\* slip: the Adds are placed before the Updates and the Removes are applied
batch_edit_adds_first(tree, acc, updates, removals, additions) ==
    LET slated == {removals[k] : k \in 1..Len(removals)} \cap non_empty_leaves(tree)
        added == batch_edit_adds(tree, acc, additions, 1)
    IN IF ~added.ok THEN added
       ELSE batch_edit_updates(added.tree, added.acc, updates, removals, << >>, slated, 1)

batch_edit(tree, acc, updates, removals, additions) ==
    LET slated == {removals[k] : k \in 1..Len(removals)} \cap non_empty_leaves(tree)
    IN batch_edit_updates(tree, acc, updates, removals, additions, slated, 1)

(***************************************************************************)
(* Filter rules                                                            *)
(***************************************************************************)
\* Result<ProposalBundle, _> from the bad per-type indices a pass collected:
\* f[k] is the Result<bool, _> of apply_strategy at position k
remove_bad_indices(bundle, T, f) ==
    LET pos == PositionsOf(bundle, T)
        errs == {k \in pos : ~f[k].ok}
        bad_indices == SeqOfSet({IndexOfPosition(bundle, k) : k \in {j \in pos : f[j].ok /\ ~f[j].val}})
    IN IF errs # {}
       THEN [ok |-> FALSE, err |-> f[Min(errs)].err, val |-> bundle]
       ELSE [ok |-> TRUE, err |-> Error(""), val |-> remove_each(bundle, T, Reverse(bad_indices))]

\* slip: a member may send an Update by value
proposer_can_propose_update_by_value(proposer, proposal_type, by_ref) ==
    CASE proposer.kind = "Member" ->
            proposal_type \in {"ADD", "UPDATE", "REMOVE", "PSK", "RE_INIT",
                               "GROUP_CONTEXT_EXTENSIONS"}
      [] proposer.kind = "External" /\ ~by_ref -> FALSE
      [] proposer.kind = "External" /\ by_ref -> proposal_type \in {"ADD", "REMOVE", "RE_INIT"}
      [] proposer.kind = "NewMemberCommit" /\ ~by_ref ->
            proposal_type \in {"REMOVE", "PSK", "EXTERNAL_INIT"}
      [] proposer.kind = "NewMemberCommit" /\ by_ref -> FALSE
      [] proposer.kind = "NewMemberProposal" /\ ~by_ref -> FALSE
      [] proposer.kind = "NewMemberProposal" /\ by_ref -> proposal_type \in {"ADD"}

proposer_can_propose(proposer, proposal_type, by_ref) ==
    CASE proposer.kind = "Member" /\ ~by_ref ->
            proposal_type \in {"ADD", "REMOVE", "PSK", "RE_INIT", "GROUP_CONTEXT_EXTENSIONS"}
      [] proposer.kind = "Member" /\ by_ref ->
            proposal_type \in {"ADD", "UPDATE", "REMOVE", "PSK", "RE_INIT",
                               "GROUP_CONTEXT_EXTENSIONS"}
      [] proposer.kind = "External" /\ ~by_ref -> FALSE
      [] proposer.kind = "External" /\ by_ref -> proposal_type \in {"ADD", "REMOVE", "RE_INIT"}
      [] proposer.kind = "NewMemberCommit" /\ ~by_ref ->
            proposal_type \in {"REMOVE", "PSK", "EXTERNAL_INIT"}
      [] proposer.kind = "NewMemberCommit" /\ by_ref -> FALSE
      [] proposer.kind = "NewMemberProposal" /\ ~by_ref -> FALSE
      [] proposer.kind = "NewMemberProposal" /\ by_ref -> proposal_type \in {"ADD"}

\* external_senders is Option<ExternalSendersExt>
\* slip: the index one past the allowed senders resolves
validate_sender_off_by_one(tree, external_senders, sender) ==
    CASE sender.kind = "Member" ->
            IF get_leaf_node(tree, sender.idx).ok THEN Ok
            ELSE Err(ErrorN("InvalidMemberProposer", sender.idx))
      [] sender.kind = "External" ->
            IF external_senders = None
            THEN Err(Error("ExternalSenderWithoutExternalSendersExtension"))
            ELSE IF Len(Unwrap(external_senders)) >= sender.idx THEN Ok
            ELSE Err(ErrorN("InvalidExternalSenderIndex", sender.idx))
      [] OTHER -> Ok

validate_sender(tree, external_senders, sender) ==
    CASE sender.kind = "Member" ->
            IF get_leaf_node(tree, sender.idx).ok THEN Ok
            ELSE Err(ErrorN("InvalidMemberProposer", sender.idx))
      [] sender.kind = "External" ->
            IF external_senders = None
            THEN Err(Error("ExternalSenderWithoutExternalSendersExtension"))
            ELSE IF Len(Unwrap(external_senders)) > sender.idx THEN Ok
            ELSE Err(ErrorN("InvalidExternalSenderIndex", sender.idx))
      [] OTHER -> Ok

validate_proposer(strategy, tree, external_senders, proposals, T) ==
    LET f(k) ==
            LET p == proposals[k]
                res == IF proposer_can_propose(p.sender, T, p.by_ref)
                       THEN validate_sender(tree, external_senders, p.sender)
                       ELSE Err(InvalidProposalTypeForSender(T, p.sender, p.by_ref))
            IN apply_strategy(strategy, p, res)
    IN retain_by_type(proposals, T, [k \in PositionsOf(proposals, T) |-> f(k)])

ValidatedTypes == << "ADD", "UPDATE", "REMOVE", "PSK", "RE_INIT", "EXTERNAL_INIT",
                     "GROUP_CONTEXT_EXTENSIONS" >>

RECURSIVE validate_proposers_from(_, _, _, _, _)
validate_proposers_from(strategy, tree, external_senders, proposals, j) ==
    IF j > Len(ValidatedTypes) THEN [ok |-> TRUE, err |-> Error(""), val |-> proposals]
    ELSE LET r == validate_proposer(strategy, tree, external_senders, proposals, ValidatedTypes[j])
         IN IF ~r.ok THEN r
            ELSE validate_proposers_from(strategy, tree, external_senders, r.val, j + 1)

filter_out_invalid_proposers(strategy, tree, group_context_extensions, proposals) ==
    LET got == get_as_external_senders(group_context_extensions)
        external_senders == IF got.ok THEN got.val ELSE None
    IN validate_proposers_from(strategy, tree, external_senders, proposals, 1)

\* slip: the committer's own Update is dropped whatever the strategy
filter_out_update_for_committer_quietly(strategy, commit_sender, proposals) ==
    LET f(k) == apply_strategy("IgnoreInvalidByRefProposal", proposals[k],
                    IF proposals[k].sender # Member(commit_sender) THEN Ok
                    ELSE Err(Error("InvalidCommitSelfUpdate")))
    IN retain_by_type(proposals, "UPDATE", [k \in PositionsOf(proposals, "UPDATE") |-> f(k)])

filter_out_update_for_committer(strategy, commit_sender, proposals) ==
    LET f(k) == apply_strategy(strategy, proposals[k],
                    IF proposals[k].sender # Member(commit_sender) THEN Ok
                    ELSE Err(Error("InvalidCommitSelfUpdate")))
    IN retain_by_type(proposals, "UPDATE", [k \in PositionsOf(proposals, "UPDATE") |-> f(k)])

\* slip: the sender of the Remove is compared, not its target
filter_out_removal_by_committer(strategy, commit_sender, proposals) ==
    LET f(k) == apply_strategy(strategy, proposals[k],
                    IF proposals[k].sender # Member(commit_sender) THEN Ok
                    ELSE Err(Error("CommitterSelfRemoval")))
    IN retain_by_type(proposals, "REMOVE", [k \in PositionsOf(proposals, "REMOVE") |-> f(k)])

filter_out_removal_of_committer(strategy, commit_sender, proposals) ==
    LET f(k) == apply_strategy(strategy, proposals[k],
                    IF proposals[k].to_remove # commit_sender THEN Ok
                    ELSE Err(Error("CommitterSelfRemoval")))
    IN retain_by_type(proposals, "REMOVE", [k \in PositionsOf(proposals, "REMOVE") |-> f(k)])

\* slip: the Updates are checked against a fresh set of indexes, without
\* the targets of the Removes
filter_out_extra_removal_or_update_separately(strategy, proposals) ==
    LET removed_before(k) == {proposals[j].to_remove : j \in {i \in PositionsOf(proposals, "REMOVE") : i < k}}
        f(k) == apply_strategy(strategy, proposals[k],
                    IF proposals[k].to_remove \notin removed_before(k) THEN Ok
                    ELSE Err(ErrorN("MoreThanOneProposalForLeaf", proposals[k].to_remove)))
        removes == retain_by_type(proposals, "REMOVE", [k \in PositionsOf(proposals, "REMOVE") |-> f(k)])
        kept == removes.val
        member_updates == {j \in PositionsOf(kept, "UPDATE") : kept[j].sender.kind = "Member"}
        is_last_update(k) == \A j \in member_updates : kept[j].sender = kept[k].sender => j <= k
        g(k) == IF kept[k].sender.kind # "Member"
                THEN [ok |-> TRUE, err |-> Error(""), val |-> TRUE]
                ELSE apply_strategy(strategy, kept[k],
                         IF is_last_update(k) THEN Ok
                         ELSE Err(ErrorN("MoreThanOneProposalForLeaf", kept[k].sender.idx)))
    IN IF ~removes.ok THEN removes ELSE retain_by_type(kept, "UPDATE", [k \in PositionsOf(kept, "UPDATE") |-> g(k)])

\* slip: of the Updates of one member the first is kept, not the last
filter_out_extra_removal_or_update_keeping_first(strategy, proposals) ==
    LET removed_before(k) == {proposals[j].to_remove : j \in {i \in PositionsOf(proposals, "REMOVE") : i < k}}
        f(k) == apply_strategy(strategy, proposals[k],
                    IF proposals[k].to_remove \notin removed_before(k) THEN Ok
                    ELSE Err(ErrorN("MoreThanOneProposalForLeaf", proposals[k].to_remove)))
        removes == retain_by_type(proposals, "REMOVE", [k \in PositionsOf(proposals, "REMOVE") |-> f(k)])
        kept == removes.val
        all_removed == {proposals[j].to_remove : j \in PositionsOf(proposals, "REMOVE")}
        member_updates == {j \in PositionsOf(kept, "UPDATE") : kept[j].sender.kind = "Member"}
        is_first_update(k) == \A j \in member_updates : kept[j].sender = kept[k].sender => j >= k
        g(k) == IF kept[k].sender.kind # "Member"
                THEN [ok |-> TRUE, err |-> Error(""), val |-> TRUE]
                ELSE apply_strategy(strategy, kept[k],
                         IF is_first_update(k) /\ kept[k].sender.idx \notin all_removed THEN Ok
                         ELSE Err(ErrorN("MoreThanOneProposalForLeaf", kept[k].sender.idx)))
    IN IF ~removes.ok THEN removes ELSE retain_by_type(kept, "UPDATE", [k \in PositionsOf(kept, "UPDATE") |-> g(k)])

filter_out_extra_removal_or_update_for_same_leaf(strategy, proposals) ==
    LET \* indexes before the Remove at position k is looked at
        removed_before(k) == {proposals[j].to_remove : j \in {i \in PositionsOf(proposals, "REMOVE") : i < k}}
        f(k) == apply_strategy(strategy, proposals[k],
                    IF proposals[k].to_remove \notin removed_before(k) THEN Ok
                    ELSE Err(ErrorN("MoreThanOneProposalForLeaf", proposals[k].to_remove)))
        removes == retain_by_type(proposals, "REMOVE", [k \in PositionsOf(proposals, "REMOVE") |-> f(k)])
        kept == removes.val
        all_removed == {proposals[j].to_remove : j \in PositionsOf(proposals, "REMOVE")}
        member_updates == {j \in PositionsOf(kept, "UPDATE") : kept[j].sender.kind = "Member"}
        is_last_update(k) == \A j \in member_updates : kept[j].sender = kept[k].sender => j <= k
        \* indexes before the Update at position k is looked at
        indexes(k) == all_removed
                      \cup {kept[j].sender.idx : j \in {i \in member_updates : i < k /\ is_last_update(i)}}
        g(k) == IF kept[k].sender.kind # "Member"
                THEN [ok |-> TRUE, err |-> Error(""), val |-> TRUE]
                ELSE apply_strategy(strategy, kept[k],
                         IF is_last_update(k) /\ kept[k].sender.idx \notin indexes(k) THEN Ok
                         ELSE Err(ErrorN("MoreThanOneProposalForLeaf", kept[k].sender.idx)))
    IN IF ~removes.ok THEN removes ELSE retain_by_type(kept, "UPDATE", [k \in PositionsOf(kept, "UPDATE") |-> g(k)])

filter_out_invalid_group_extensions(strategy, proposals, commit_time) ==
    LET f(k) ==
            LET got == get_as_external_senders(proposals[k].ext)
                res == IF ~got.ok THEN Err(got.err)
                       ELSE IF got.val = None THEN Ok
                       ELSE verify_all(Unwrap(got.val), commit_time)
            IN apply_strategy(strategy, proposals[k], res)
    IN remove_bad_indices(proposals, "GROUP_CONTEXT_EXTENSIONS", [k \in PositionsOf(proposals, "GROUP_CONTEXT_EXTENSIONS") |-> f(k)])

\* slip: the last group-context-extensions proposal is kept, not the first
filter_out_earlier_group_context_extensions(strategy, proposals) ==
    LET found(k) == \E j \in PositionsOf(proposals, "GROUP_CONTEXT_EXTENSIONS") : j > k
        f(k) == apply_strategy(strategy, proposals[k],
                    IF ~found(k) THEN Ok
                    ELSE Err(Error("MoreThanOneGroupContextExtensionsProposal")))
    IN retain_by_type(proposals, "GROUP_CONTEXT_EXTENSIONS", [k \in PositionsOf(proposals, "GROUP_CONTEXT_EXTENSIONS") |-> f(k)])

filter_out_extra_group_context_extensions(strategy, proposals) ==
    LET found(k) == \E j \in PositionsOf(proposals, "GROUP_CONTEXT_EXTENSIONS") : j < k
        f(k) == apply_strategy(strategy, proposals[k],
                    IF ~found(k) THEN Ok
                    ELSE Err(Error("MoreThanOneGroupContextExtensionsProposal")))
    IN retain_by_type(proposals, "GROUP_CONTEXT_EXTENSIONS", [k \in PositionsOf(proposals, "GROUP_CONTEXT_EXTENSIONS") |-> f(k)])

\* slip: a ReInit that keeps the protocol version is turned away
filter_out_reinit_without_upgrade(strategy, proposals, protocol_version) ==
    LET f(k) == apply_strategy(strategy, proposals[k],
                    IF proposals[k].version > protocol_version THEN Ok
                    ELSE Err([Error("InvalidProtocolVersionInReInit") EXCEPT
                                 !.n = proposals[k].version, !.m = protocol_version]))
    IN retain_by_type(proposals, "RE_INIT", [k \in PositionsOf(proposals, "RE_INIT") |-> f(k)])

filter_out_invalid_reinit(strategy, proposals, protocol_version) ==
    LET f(k) == apply_strategy(strategy, proposals[k],
                    IF proposals[k].version >= protocol_version THEN Ok
                    ELSE Err([Error("InvalidProtocolVersionInReInit") EXCEPT
                                 !.n = proposals[k].version, !.m = protocol_version]))
    IN retain_by_type(proposals, "RE_INIT", [k \in PositionsOf(proposals, "RE_INIT") |-> f(k)])

\* slip: only a second ReInit is turned away
filter_out_second_reinit(strategy, proposals) ==
    LET found(k) == \E j \in PositionsOf(proposals, "RE_INIT") : j < k
        f(k) == apply_strategy(strategy, proposals[k],
                    IF ~found(k) THEN Ok
                    ELSE Err(Error("OtherProposalWithReInit")))
    IN retain_by_type(proposals, "RE_INIT", [k \in PositionsOf(proposals, "RE_INIT") |-> f(k)])

filter_out_reinit_if_other_proposals(strategy, proposals) ==
    LET has_only_reinit == \A t \in proposal_types(proposals) : t = "RE_INIT"
        found(k) == \E j \in PositionsOf(proposals, "RE_INIT") : j < k
        f(k) == apply_strategy(strategy, proposals[k],
                    IF has_only_reinit /\ ~found(k) THEN Ok
                    ELSE Err(Error("OtherProposalWithReInit")))
    IN retain_by_type(proposals, "RE_INIT", [k \in PositionsOf(proposals, "RE_INIT") |-> f(k)])

\* slip: only an ExternalInit sent by a member is turned away
filter_out_external_init_of_members(strategy, commit_sender, proposals) ==
    LET f(k) == apply_strategy(strategy, proposals[k],
                    IF proposals[k].sender.kind # "Member" THEN Ok
                    ELSE Err(InvalidProposalTypeForSender("EXTERNAL_INIT", Member(commit_sender),
                                                          proposals[k].by_ref)))
    IN retain_by_type(proposals, "EXTERNAL_INIT", [k \in PositionsOf(proposals, "EXTERNAL_INIT") |-> f(k)])

filter_out_external_init(strategy, commit_sender, proposals) ==
    LET f(k) == apply_strategy(strategy, proposals[k],
                    Err(InvalidProposalTypeForSender("EXTERNAL_INIT", Member(commit_sender),
                                                     proposals[k].by_ref)))
    IN retain_by_type(proposals, "EXTERNAL_INIT", [k \in PositionsOf(proposals, "EXTERNAL_INIT") |-> f(k)])

\* slip: a nonce shorter than kdf_extract_size is let through
filter_out_invalid_psks_with_long_nonce(strategy, proposals) ==
    LET f(k) ==
            LET psk == proposals[k].psk
                valid == psk.key_type \in {"External", "ResumptionApplication"}
                nonce_length == Len(psk.nonce)
                nonce_valid == nonce_length <= kdf_extract_size
                ids_seen == {proposals[j].psk : j \in {i \in PositionsOf(proposals, "PSK") : i < k}}
                is_new_id == psk \notin ids_seen
                external_id_is_valid == IF psk.key_type = "External"
                                        THEN ExternalPskIdValidator_validate(psk.id)
                                        ELSE Ok
                res == IF ~valid THEN Err(Error("InvalidTypeOrUsageInPreSharedKeyProposal"))
                       ELSE IF ~nonce_valid
                       THEN Err([Error("InvalidPskNonceLength") EXCEPT
                                    !.n = kdf_extract_size, !.m = nonce_length])
                       ELSE IF ~is_new_id THEN Err(Error("DuplicatePskIds"))
                       ELSE external_id_is_valid
            IN apply_strategy(strategy, proposals[k], res)
    IN remove_bad_indices(proposals, "PSK", [k \in PositionsOf(proposals, "PSK") |-> f(k)])

filter_out_invalid_psks(strategy, proposals) ==
    LET f(k) ==
            LET psk == proposals[k].psk
                valid == psk.key_type \in {"External", "ResumptionApplication"}
                nonce_length == Len(psk.nonce)
                nonce_valid == nonce_length = kdf_extract_size
                ids_seen == {proposals[j].psk : j \in {i \in PositionsOf(proposals, "PSK") : i < k}}
                is_new_id == psk \notin ids_seen
                external_id_is_valid == IF psk.key_type = "External"
                                        THEN ExternalPskIdValidator_validate(psk.id)
                                        ELSE Ok
                res == IF ~valid THEN Err(Error("InvalidTypeOrUsageInPreSharedKeyProposal"))
                       ELSE IF ~nonce_valid
                       THEN Err([Error("InvalidPskNonceLength") EXCEPT
                                    !.n = kdf_extract_size, !.m = nonce_length])
                       ELSE IF ~is_new_id THEN Err(Error("DuplicatePskIds"))
                       ELSE external_id_is_valid
            IN apply_strategy(strategy, proposals[k], res)
    IN remove_bad_indices(proposals, "PSK", [k \in PositionsOf(proposals, "PSK") |-> f(k)])

(***************************************************************************)
(* External commit checks                                                  *)
(***************************************************************************)
\* slip: one ExternalInit or more
ensure_at_least_one_external_init(proposals) ==
    IF Len(by_type(proposals, "EXTERNAL_INIT")) >= 1 THEN Ok
    ELSE Err(Error("ExternalCommitMustHaveExactlyOneExternalInit"))

ensure_exactly_one_external_init(proposals) ==
    IF Len(by_type(proposals, "EXTERNAL_INIT")) = 1 THEN Ok
    ELSE Err(Error("ExternalCommitMustHaveExactlyOneExternalInit"))

ensure_proposals_in_external_commit_are_allowed(proposals) ==
    LET unsupported == {k \in 1..Len(proposals) :
                            proposals[k].type \notin {"EXTERNAL_INIT", "REMOVE", "PSK"}}
    IN IF unsupported = {} THEN Ok
       ELSE Err([Error("InvalidProposalTypeInExternalCommit") EXCEPT
                    !.ptype = proposals[Min(unsupported)].type])

ensure_removal_is_for_self(removal, external_leaf, tree) ==
    LET existing == get_leaf_node(tree, removal.to_remove)
        succ == IdentityProvider_valid_successor(existing.val.sid, external_leaf.sid)
    IN IF ~existing.ok THEN Err(existing.err)
       ELSE IF ~succ.ok THEN Err(succ.err)
       ELSE IF succ.val THEN Ok
       ELSE Err(Error("ExternalCommitRemovesOtherIdentity"))

ensure_at_most_one_removal_for_self(proposals, external_leaf, tree) ==
    LET removals == by_type(proposals, "REMOVE")
    IN IF Len(removals) = 0 THEN Ok
       ELSE IF Len(removals) = 1 THEN ensure_removal_is_for_self(removals[1], external_leaf, tree)
       ELSE Err(Error("ExternalCommitWithMoreThanOneRemove"))

ensure_no_proposal_by_ref(proposals) ==
    IF \E k \in 1..Len(proposals) : proposals[k].by_ref
    THEN Err(Error("OnlyMembersCanCommitProposalsByRef"))
    ELSE Ok

(***************************************************************************)
(* ProposalState and the tree-changes phase                                *)
(***************************************************************************)
\* slip: the external leaf index starts at the first leaf instead of unset
ProposalState_new_with_default_index(tree, proposals) ==
    [tree |-> tree, proposals |-> proposals, added_indexes |-> << >>,
     removed_leaves |-> << >>, external_leaf_index |-> Some(0)]

ProposalState_new(tree, proposals) ==
    [tree |-> tree, proposals |-> proposals, added_indexes |-> << >>,
     removed_leaves |-> << >>, external_leaf_index |-> None]

\* Result<ProposalState, _>; an error carries the state it was raised on
StateOk(state) == [ok |-> TRUE, err |-> Error(""), val |-> state]

StateErr(e, state) == [ok |-> FALSE, err |-> e, val |-> state]

\* Result<LeafIndex, _>
leaf_index_of_update_sender(p) ==
    IF p.sender.kind = "Member" THEN [ok |-> TRUE, err |-> Error(""), val |-> p.sender.idx]
    ELSE [ok |-> FALSE, err |-> InvalidProposalTypeForSender("UPDATE", p.sender, p.by_ref),
          val |-> 0]

leaf_supports_extensions(leaf, extensions) ==
    LET missing == {t \in extensions.types : ~is_default(t) /\ t \notin leaf.exts}
    IN IF missing = {} THEN Ok
       ELSE Err(ErrorInner("UnsupportedGroupExtension", CHOOSE t \in missing : TRUE))

validate_new_update_nodes(strategy, state, group_extensions_in_use, required_capabilities, commit_time) ==
    LET proposals == state.proposals
        f(k) ==
            LET p == proposals[k]
                sender_index == leaf_index_of_update_sender(p)
                valid == LeafNodeValidator_check_if_valid(p.leaf, "Update",
                                                          required_capabilities, commit_time)
                extensions_are_supported == leaf_supports_extensions(p.leaf,
                                                                     group_extensions_in_use)
            IN IF ~sender_index.ok THEN [ok |-> FALSE, err |-> sender_index.err, val |-> FALSE]
               ELSE apply_strategy(strategy, p, And(valid, extensions_are_supported))
        r == remove_bad_indices(proposals, "UPDATE", [k \in PositionsOf(proposals, "UPDATE") |-> f(k)])
    IN IF r.ok THEN StateOk([state EXCEPT !.proposals = r.val]) ELSE StateErr(r.err, state)

validate_new_key_packages(strategy, state, group_extensions_in_use, required_capabilities, commit_time) ==
    LET proposals == state.proposals
        f(k) ==
            LET p == proposals[k]
                valid == KeyPackageValidator_check_if_valid(p.leaf, required_capabilities,
                                                            commit_time)
                extensions_are_supported == leaf_supports_extensions(p.leaf,
                                                                     group_extensions_in_use)
            IN apply_strategy(strategy, p, And(valid, extensions_are_supported))
        r == remove_bad_indices(proposals, "ADD", [k \in PositionsOf(proposals, "ADD") |-> f(k)])
    IN IF r.ok THEN StateOk([state EXCEPT !.proposals = r.val]) ELSE StateErr(r.err, state)

validate_new_nodes(strategy, state, group_extensions_in_use, required_capabilities, commit_time) ==
    LET r == validate_new_update_nodes(strategy, state, group_extensions_in_use,
                                       required_capabilities, commit_time)
    IN IF ~r.ok THEN r
       ELSE validate_new_key_packages(strategy, r.val, group_extensions_in_use,
                                      required_capabilities, commit_time)

\* the retain_by_type pass of apply_tree_changes over the Updates
retain_updates_of_members(strategy, proposals) ==
    LET f(k) == LET r == leaf_index_of_update_sender(proposals[k])
                IN apply_strategy(strategy, proposals[k], IF r.ok THEN Ok ELSE Err(r.err))
    IN retain_by_type(proposals, "UPDATE", [k \in PositionsOf(proposals, "UPDATE") |-> f(k)])

\* `updates`: the (leaf index, leaf node) pairs the retain pass collects
updates_of(proposals) ==
    LET member_updates == SubSeqAt(proposals,
                              {k \in PositionsOf(proposals, "UPDATE") :
                                  leaf_index_of_update_sender(proposals[k]).ok})
    IN [k \in 1..Len(member_updates) |->
           [index |-> member_updates[k].sender.idx, leaf |-> member_updates[k].leaf]]

removals_of(proposals) ==
    LET rem == by_type(proposals, "REMOVE") IN [k \in 1..Len(rem) |-> rem[k].to_remove]

additions_of(proposals) ==
    LET adds == by_type(proposals, "ADD") IN [k \in 1..Len(adds) |-> adds[k].leaf]

\* the proposals the accumulator marked invalid leave the bundle, highest
\* index first
remove_invalid(proposals, acc) ==
    remove_each(
        remove_each(
            remove_each(proposals, "ADD", Reverse(SeqOfSet(acc.invalid_additions))),
            "REMOVE", Reverse(SeqOfSet(acc.invalid_removals))),
        "UPDATE", Reverse(SeqOfSet(acc.invalid_updates)))

\* the accumulator the batch edit returned is written to the state
accumulator_into_state(state, proposals, edit) ==
    IF ~edit.ok
    THEN StateErr(edit.err, [state EXCEPT !.proposals = proposals, !.tree = edit.tree])
    ELSE StateOk([state EXCEPT !.tree = edit.tree,
                               !.proposals = remove_invalid(proposals, edit.acc),
                               !.added_indexes = edit.acc.new_leaf_indexes,
                               !.removed_leaves = edit.acc.removed_leaves])

\* the batch edit on the bundle the retain pass left
edit_tree(strategy, state, retained) ==
    IF ~retained.ok THEN StateErr(retained.err, state)
    ELSE accumulator_into_state(state, retained.val,
             batch_edit(state.tree, TreeBatchEditAccumulator_new(strategy, retained.val),
                        updates_of(state.proposals), removals_of(retained.val),
                        additions_of(retained.val)))

\* apply_tree_changes after validate_new_nodes(..)?
apply_validated_tree_changes(strategy, validated) ==
    IF ~validated.ok THEN validated
    ELSE edit_tree(strategy, validated.val,
                   retain_updates_of_members(strategy, validated.val.proposals))

apply_tree_changes(strategy, state, group_extensions_in_use, required_capabilities, commit_time) ==
    apply_validated_tree_changes(strategy,
        validate_new_nodes(strategy, state, group_extensions_in_use, required_capabilities,
                           commit_time))

\* the required capabilities and extensions of the proposal against every
\* leaf of the edited tree
new_capabilities_supported(tree, new_required_capabilities) ==
    LET failing == {i \in non_empty_leaves(tree) :
                       ~validate_required_capabilities(tree.leaves[i], new_required_capabilities).ok}
    IN IF failing = {} THEN Ok
       ELSE validate_required_capabilities(tree.leaves[Min(failing)], new_required_capabilities)

\* slip: one supporting leaf is enough
new_extensions_supported_by_some(tree, extension_list) ==
    LET unsupported == {t \in extension_list.types :
                           ~is_default(t)
                           /\ ~(\E i \in non_empty_leaves(tree) : t \in tree.leaves[i].exts)}
    IN IF unsupported = {} THEN Ok
       ELSE Err(ErrorInner("UnsupportedGroupExtension", CHOOSE t \in unsupported : TRUE))

new_extensions_supported(tree, extension_list) ==
    LET unsupported == {t \in extension_list.types :
                           ~is_default(t)
                           /\ ~(\A i \in non_empty_leaves(tree) : t \in tree.leaves[i].exts)}
    IN IF unsupported = {} THEN Ok
       ELSE Err(ErrorInner("UnsupportedGroupExtension", CHOOSE t \in unsupported : TRUE))

\* slip: an ignored proposal always returns the first attempt's state
check_new_capabilities_without_retry(applier, strategy, state, gce_proposal, new_required_capabilities, commit_time, attempt) ==
    LET new_state == attempt.val
        group_extensions_supported ==
            And(new_capabilities_supported(new_state.tree, new_required_capabilities),
                new_extensions_supported(new_state.tree, gce_proposal.ext))
    IN IF ~attempt.ok THEN attempt
       ELSE IF group_extensions_supported.ok THEN StateOk(new_state)
       ELSE IF ~ignore(strategy, gce_proposal)
       THEN StateErr(group_extensions_supported.err, new_state)
       ELSE StateOk([new_state EXCEPT !.proposals = clear_group_context_extensions(@)])

\* apply_proposals_with_new_capabilities after its first apply_tree_changes(..)?
check_new_capabilities(applier, strategy, state, gce_proposal, new_required_capabilities, commit_time, attempt) ==
    LET new_state == attempt.val
        group_extensions_supported ==
            And(new_capabilities_supported(new_state.tree, new_required_capabilities),
                new_extensions_supported(new_state.tree, gce_proposal.ext))
        ignored == ignore(strategy, gce_proposal)
        cleared(st) == [st EXCEPT !.proposals = clear_group_context_extensions(@)]
    IN IF ~attempt.ok THEN attempt
       ELSE IF group_extensions_supported.ok THEN StateOk(new_state)
       ELSE IF ~ignored THEN StateErr(group_extensions_supported.err, new_state)
       ELSE IF applier.original_required_capabilities = None
               /\ ExtensionList_is_empty(applier.original_group_extensions)
       THEN StateOk(cleared(new_state))
       ELSE apply_tree_changes(strategy, cleared(state), applier.original_group_extensions,
                               applier.original_required_capabilities, commit_time)

apply_proposals_with_new_capabilities(applier, strategy, state, gce_proposal, new_required_capabilities, commit_time) ==
    check_new_capabilities(applier, strategy, state, gce_proposal, new_required_capabilities,
        commit_time, apply_tree_changes(strategy, state, ExtensionList_new, None, commit_time))

apply_proposal_changes(applier, strategy, state, commit_time) ==
    LET first == group_context_extensions_proposal(state.proposals)
        p == Unwrap(first)
        capabilities == get_as_required_capabilities(p.ext)
        \* "none", "error" or "some"
        extensions_proposal_and_capabilities ==
            IF first = None THEN "none"
            ELSE IF capabilities.ok THEN "some"
            ELSE IF ignore(strategy, p) THEN "none"
            ELSE "error"
    IN IF extensions_proposal_and_capabilities = "error" THEN StateErr(capabilities.err, state)
       ELSE IF extensions_proposal_and_capabilities = "some"
       THEN apply_proposals_with_new_capabilities(applier, strategy, state, p,
                                                  capabilities.val, commit_time)
       ELSE apply_tree_changes(strategy,
                               [state EXCEPT !.proposals = clear_group_context_extensions(@)],
                               applier.original_group_extensions,
                               applier.original_required_capabilities, commit_time)

\* slip: the index of the new leaf is not written to the state
external_leaf_added_unrecorded(state, added) ==
    IF ~added.ok THEN StateErr(added.err, state)
    ELSE StateOk([state EXCEPT !.tree = added.tree])

\* the state after add_leaves(vec![leaf_node])
external_leaf_added(state, added) ==
    IF ~added.ok THEN StateErr(added.err, state)
    ELSE StateOk([state EXCEPT !.tree = added.tree,
                               !.external_leaf_index = Some(added.indexes[1])])

\* slip: the leaf is put into the tree without the checks of add_leaves
insert_external_leaf_unchecked(state, leaf_node) ==
    LET placed == PlaceLeaf(state.tree, leaf_node)
    IN StateOk([state EXCEPT !.tree = placed.tree, !.external_leaf_index = Some(placed.index)])

insert_external_leaf(state, leaf_node) ==
    external_leaf_added(state, add_leaves(state.tree, << leaf_node >>))

\* slip: the types the tree cannot support are the ones let through
filter_out_supported_custom_proposals(state, strategy) ==
    LET proposals == state.proposals
        unsupported_types == {t \in custom_proposal_types(proposals) :
                                 ~can_support_proposal(state.tree, t)}
        f(k) == apply_strategy(strategy, proposals[k],
                    IF proposals[k].ctype \in unsupported_types THEN Ok
                    ELSE Err(ErrorInner("UnsupportedCustomProposal", proposals[k].ctype)))
        r == retain_by_type(proposals, "CUSTOM", [k \in PositionsOf(proposals, "CUSTOM") |-> f(k)])
    IN IF r.ok THEN StateOk([state EXCEPT !.proposals = r.val]) ELSE StateErr(r.err, state)

filter_out_unsupported_custom_proposals(state, strategy) ==
    LET proposals == state.proposals
        unsupported_types == {t \in custom_proposal_types(proposals) :
                                 can_support_proposal(state.tree, t)}
        f(k) == apply_strategy(strategy, proposals[k],
                    IF proposals[k].ctype \in unsupported_types THEN Ok
                    ELSE Err(ErrorInner("UnsupportedCustomProposal", proposals[k].ctype)))
        r == retain_by_type(proposals, "CUSTOM", [k \in PositionsOf(proposals, "CUSTOM") |-> f(k)])
    IN IF r.ok THEN StateOk([state EXCEPT !.proposals = r.val]) ELSE StateErr(r.err, state)

(***************************************************************************)
(* The order of the work inside the tree-changes phase: what is done to    *)
(* the proposals and to the working tree, statement by statement           *)
(***************************************************************************)
\* kind is "call", "rule", "clone", "validate", "flag", "reject", "drop",
\* "edit" or "fail"; at names the function or statement that does it
Ev(kind, at) == [kind |-> kind, at |-> at]

\* what a pass over the bundle did besides running: nothing, a rejection, or
\* the drop of a proposal
PassEvents(at, ok, before, after) ==
    IF ~ok THEN << Ev("reject", at) >>
    ELSE IF Len(after) < Len(before) THEN << Ev("drop", at) >>
    ELSE << >>

\* the items of a batch edit in the order it takes them
BatchItems(nu, nr, na) ==
    [k \in 1..nu |-> [type |-> "UPDATE", index |-> k - 1]]
    \o [k \in 1..nr |-> [type |-> "REMOVE", index |-> k - 1]]
    \o [k \in 1..na |-> [type |-> "ADD", index |-> k - 1]]

FlaggedBy(acc, item) ==
    item.index \in (CASE item.type = "UPDATE" -> acc.invalid_updates
                      [] item.type = "REMOVE" -> acc.invalid_removals
                      [] OTHER -> acc.invalid_additions)

\* batch_edit: an item whose outcome is Ok is an edit of the tree; an item
\* whose outcome is Err is flagged in the accumulator or aborts the edit; the
\* flagged proposals leave the bundle when the edit has returned
events_of_batch_edit(edit, items) ==
    LET flagged == {k \in 1..Len(items) : FlaggedBy(edit.acc, items[k])}
        last == IF edit.ok THEN Len(items) ELSE Max(flagged)
    IN [k \in 1..last |->
           IF k \notin flagged THEN Ev("edit", "batch_edit")
           ELSE IF ~edit.ok /\ k = last THEN Ev("reject", "batch_edit")
           ELSE Ev("flag", "batch_edit")]
       \o (IF edit.ok /\ flagged # {} THEN << Ev("drop", "apply_tree_changes") >> ELSE << >>)

\* apply_tree_changes from its retain pass on
events_of_edit_tree(strategy, state, retained) ==
    PassEvents("retain_by_type", retained.ok, state.proposals, retained.val)
    \o (IF ~retained.ok THEN << >>
        ELSE events_of_batch_edit(
                 batch_edit(state.tree, TreeBatchEditAccumulator_new(strategy, retained.val),
                            updates_of(state.proposals), removals_of(retained.val),
                            additions_of(retained.val)),
                 BatchItems(Len(updates_of(state.proposals)), Len(removals_of(retained.val)),
                            Len(additions_of(retained.val)))))

\* apply_tree_changes after validate_new_nodes(..)
events_of_validated_tree_changes(strategy, state, validated) ==
    << Ev("validate", "validate_new_nodes") >>
    \o PassEvents("validate_new_nodes", validated.ok, state.proposals, validated.val.proposals)
    \o (IF ~validated.ok THEN << >>
        ELSE events_of_edit_tree(strategy, validated.val,
                 retain_updates_of_members(strategy, validated.val.proposals)))

events_of_tree_changes(strategy, state, group_extensions_in_use, required_capabilities, commit_time) ==
    events_of_validated_tree_changes(strategy, state,
        validate_new_nodes(strategy, state, group_extensions_in_use, required_capabilities,
                           commit_time))

\* apply_proposals_with_new_capabilities after its first attempt
events_of_check_new_capabilities(applier, strategy, state, gce_proposal, new_required_capabilities, commit_time, attempt) ==
    LET supported ==
            And(new_capabilities_supported(attempt.val.tree, new_required_capabilities),
                new_extensions_supported(attempt.val.tree, gce_proposal.ext))
    IN IF ~attempt.ok THEN << >>
       ELSE IF supported.ok THEN << Ev("validate", "check_new_capabilities") >>
       ELSE IF ~ignore(strategy, gce_proposal)
       THEN << Ev("validate", "check_new_capabilities"), Ev("reject", "check_new_capabilities") >>
       ELSE << Ev("validate", "check_new_capabilities"), Ev("drop", "check_new_capabilities") >>
            \o (IF applier.original_required_capabilities = None
                   /\ ExtensionList_is_empty(applier.original_group_extensions)
                THEN << >>
                ELSE events_of_tree_changes(strategy,
                         [state EXCEPT !.proposals = clear_group_context_extensions(@)],
                         applier.original_group_extensions,
                         applier.original_required_capabilities, commit_time))

events_of_new_capabilities(applier, strategy, state, gce_proposal, new_required_capabilities, commit_time) ==
    events_of_tree_changes(strategy, state, ExtensionList_new, None, commit_time)
    \o events_of_check_new_capabilities(applier, strategy, state, gce_proposal,
           new_required_capabilities, commit_time,
           apply_tree_changes(strategy, state, ExtensionList_new, None, commit_time))

\* apply_proposal_changes
events_of_proposal_changes(applier, strategy, state, commit_time) ==
    LET first == group_context_extensions_proposal(state.proposals)
        p == Unwrap(first)
        capabilities == get_as_required_capabilities(p.ext)
    IN IF first = None
       THEN events_of_tree_changes(strategy, state, applier.original_group_extensions,
                                   applier.original_required_capabilities, commit_time)
       ELSE IF capabilities.ok
       THEN events_of_new_capabilities(applier, strategy, state, p, capabilities.val,
                                       commit_time)
       ELSE IF ~ignore(strategy, p) THEN << Ev("reject", "apply_proposal_changes") >>
       ELSE << Ev("drop", "apply_proposal_changes") >>
            \o events_of_tree_changes(strategy,
                   [state EXCEPT !.proposals = clear_group_context_extensions(@)],
                   applier.original_group_extensions,
                   applier.original_required_capabilities, commit_time)

\* insert_external_leaf: add_leaves of the joiner's leaf
events_of_insert_external_leaf(state, leaf_node) ==
    IF add_leaves(state.tree, << leaf_node >>).ok
    THEN << Ev("edit", "insert_external_leaf") >>
    ELSE << Ev("fail", "insert_external_leaf") >>

(***************************************************************************)
(* Groups, leaves and proposals the applier is run on                      *)
(***************************************************************************)
L0 == Leaf(0, 10, {"X"}, {"P"}, "Commit")

L1 == Leaf(1, 11, {"X"}, {"P"}, "KeyPackage")

L3 == Leaf(3, 13, {"X", "Y"}, {"P", "Q"}, "Update")

\* four leaf slots, slot 2 blank
TreeA == [leaves |-> [i \in 0..3 |-> CASE i = 0 -> L0 [] i = 1 -> L1 [] i = 2 -> BlankLeaf
                                      [] OTHER -> L3],
          parents |-> [x \in ParentNodes(4) |-> FilledParent]]

\* two leaf slots, full
TreeB == [leaves |-> [i \in 0..1 |-> IF i = 0 THEN L0 ELSE L1],
          parents |-> [x \in ParentNodes(2) |-> FilledParent]]

RequiresX == RequiredCapabilities({"X"}, {})

\* the groups the applier is run on: tree, context, and the member that
\* commits and the commit time when a member commits
Groups ==
    {[tree |-> TreeA, protocol_version |-> 1, extensions |-> ExtensionList_new,
      required_capabilities |-> None, committer |-> Member(0), commit_time |-> None],
     [tree |-> TreeB, protocol_version |-> 2,
      extensions |-> ExtensionList({"X", "REQUIRED_CAPABILITIES", "EXTERNAL_SENDERS"},
                                   Some(RequiresX), << 6 >>, {}),
      required_capabilities |-> Some(RequiresX), committer |-> Member(1),
      commit_time |-> Some(5)]}

AddProposals ==
    {AddProposal(Member(1), TRUE, Leaf(5, 15, {"X", "Y"}, {"P"}, "KeyPackage")),
     AddProposal(Member(0), FALSE, Leaf(1, 16, {"X"}, {"P"}, "KeyPackage")),
     AddProposal(NewMemberProposal, TRUE, Leaf(6, 17, {}, {}, "KeyPackage")),
     AddProposal(External(0), TRUE,
                 [Leaf(7, 18, {"X"}, {"P"}, "KeyPackage") EXCEPT !.not_after = 3])}

UpdateProposals ==
    {UpdateProposal(Member(1), TRUE, Leaf(1, 21, {"X"}, {"P"}, "Update")),
     UpdateProposal(Member(1), TRUE, Leaf(1, 22, {"X", "Y"}, {"P"}, "Update")),
     UpdateProposal(Member(0), TRUE, Leaf(0, 20, {"X"}, {"P"}, "Update")),
     UpdateProposal(Member(1), FALSE, Leaf(1, 23, {"X"}, {"P"}, "Update")),
     UpdateProposal(Member(0), FALSE, Leaf(0, 24, {"X"}, {"P"}, "Update")),
     UpdateProposal(Member(3), TRUE, Leaf(3, 11, {"X"}, {"P"}, "Update"))}

RemoveProposals ==
    {RemoveProposal(Member(0), FALSE, 1),
     RemoveProposal(Member(3), TRUE, 1),
     RemoveProposal(Member(1), TRUE, 0),
     RemoveProposal(Member(1), TRUE, 2),
     RemoveProposal(External(1), TRUE, 1)}

PskProposals ==
    {PreSharedKeyProposal(Member(0), FALSE, "External", 1, << 0, 0 >>),
     PreSharedKeyProposal(Member(1), TRUE, "External", 1, << 0, 1 >>),
     PreSharedKeyProposal(Member(1), TRUE, "External", 1, << 0, 0 >>),
     PreSharedKeyProposal(Member(1), TRUE, "ResumptionApplication", 2, << 0 >>),
     PreSharedKeyProposal(Member(0), FALSE, "External", 2, << 0 >>),
     PreSharedKeyProposal(Member(1), TRUE, "ResumptionReInit", 2, << 0, 0 >>)}

ReInitProposals ==
    {ReInitProposal(Member(0), FALSE, 2), ReInitProposal(Member(1), TRUE, 1)}

GroupContextExtensionsProposals ==
    {GroupContextExtensions(Member(0), FALSE,
         ExtensionList({"X", "REQUIRED_CAPABILITIES"},
                       Some(RequiredCapabilities({"X"}, {"P"})), << >>, {})),
     GroupContextExtensions(Member(1), TRUE, ExtensionList({"Y"}, None, << >>, {})),
     GroupContextExtensions(Member(1), TRUE,
         ExtensionList({"REQUIRED_CAPABILITIES"}, None, << >>, {"REQUIRED_CAPABILITIES"})),
     GroupContextExtensions(Member(1), TRUE,
         ExtensionList({"EXTERNAL_SENDERS"}, None, << 9 >>, {}))}

CustomProposals ==
    {CustomProposal(Member(0), FALSE, "P"), CustomProposal(Member(1), TRUE, "Q")}

\* proposals a member commits
MemberPalette ==
    AddProposals \cup UpdateProposals \cup RemoveProposals \cup PskProposals
    \cup ReInitProposals \cup GroupContextExtensionsProposals \cup CustomProposals
    \cup {ExternalInit(Member(1), TRUE), ExternalInit(NewMemberCommit, FALSE)}

\* proposals a joiner commits
NewMemberPalette ==
    {ExternalInit(NewMemberCommit, FALSE),
     RemoveProposal(NewMemberCommit, FALSE, 1),
     RemoveProposal(NewMemberCommit, FALSE, 0),
     RemoveProposal(NewMemberCommit, FALSE, 2),
     RemoveProposal(NewMemberCommit, FALSE, 3),
     PreSharedKeyProposal(NewMemberCommit, FALSE, "External", 1, << 0, 0 >>),
     PreSharedKeyProposal(NewMemberCommit, FALSE, "External", 2, << 0 >>),
     PreSharedKeyProposal(Member(1), TRUE, "External", 1, << 0, 1 >>),
     AddProposal(Member(0), FALSE, Leaf(1, 16, {"X"}, {"P"}, "KeyPackage")),
     CustomProposal(Member(0), FALSE, "P")}

\* proposals handed over by a sender that cannot commit
OtherPalette ==
    {RemoveProposal(Member(0), FALSE, 1),
     AddProposal(Member(1), TRUE, Leaf(5, 15, {"X", "Y"}, {"P"}, "KeyPackage"))}

\* the new leaf of the joiner of an external commit
ExternalLeaves ==
    {None, Some(Leaf(1, 31, {"X"}, {"P"}, "Commit")), Some(Leaf(5, 35, {"X"}, {"P"}, "Commit")),
     Some(Leaf(4, 10, {"X"}, {"P"}, "Commit")), Some(Leaf(3, 33, {"X"}, {"P"}, "Commit"))}

BundlesOver(palette) == UNION {[1..n -> palette] : n \in 0..MaxLen}

\* external commits of an ExternalInit and two more proposals: the shortest
\* bundles that hold an ExternalInit next to more than one Remove
ExternalCommitsOfThree ==
    LET few == {ExternalInit(NewMemberCommit, FALSE),
                RemoveProposal(NewMemberCommit, FALSE, 1),
                RemoveProposal(NewMemberCommit, FALSE, 3)}
    IN {<< a, b, c >> : a \in few, b \in few, c \in few}

\* the calls of apply_proposals on group g under strategy s: applier fields,
\* then arguments
Calls(g, s) ==
    {[group |-> g, external_leaf |-> None, strategy |-> s, commit_sender |-> g.committer,
      proposals |-> b, commit_time |-> g.commit_time] :
        b \in BundlesOver(MemberPalette)}
    \cup
    {[group |-> g, external_leaf |-> l, strategy |-> s, commit_sender |-> NewMemberCommit,
      proposals |-> b, commit_time |-> g.commit_time] :
        l \in ExternalLeaves, b \in BundlesOver(NewMemberPalette) \cup ExternalCommitsOfThree}
    \cup
    {[group |-> g, external_leaf |-> None, strategy |-> s, commit_sender |-> c,
      proposals |-> b, commit_time |-> g.commit_time] :
        c \in {External(0), NewMemberProposal}, b \in BundlesOver(OtherPalette)}

\* the ? operator on a check that leaves the bundle as it is
and_then_ensure(r, e) == IF ~r.ok THEN r ELSE [ok |-> e.ok, err |-> e.err, val |-> r.val]

\* the j-th rule of apply_proposals_from_member on the bundle the rules
\* before it let through
member_rule(j, applier, tree, strategy, commit_sender, commit_time, proposals) ==
    CASE j = 1 -> filter_out_invalid_proposers(strategy, tree,
                                               applier.original_group_extensions, proposals)
      [] j = 2 -> filter_out_update_for_committer(strategy, commit_sender, proposals)
      [] j = 3 -> filter_out_removal_of_committer(strategy, commit_sender, proposals)
      [] j = 4 -> filter_out_extra_removal_or_update_for_same_leaf(strategy, proposals)
      [] j = 5 -> filter_out_invalid_psks(strategy, proposals)
      [] j = 6 -> filter_out_invalid_group_extensions(strategy, proposals, commit_time)
      [] j = 7 -> filter_out_extra_group_context_extensions(strategy, proposals)
      [] j = 8 -> filter_out_invalid_reinit(strategy, proposals, applier.protocol_version)
      [] j = 9 -> filter_out_reinit_if_other_proposals(strategy, proposals)
      [] j = 10 -> filter_out_external_init(strategy, commit_sender, proposals)

\* the rules from the j-th on, chained by ?
RECURSIVE member_rules(_, _, _, _, _, _, _)
member_rules(j, applier, tree, strategy, commit_sender, commit_time, r) ==
    IF ~r.ok \/ j > 10 THEN r
    ELSE member_rules(j + 1, applier, tree, strategy, commit_sender, commit_time,
                      member_rule(j, applier, tree, strategy, commit_sender, commit_time,
                                  r.val))

\* the state phase of an apply_proposals path, on the bundle its rules let through
state_of_rules(applier, tree, strategy, commit_time, r) ==
    IF r.ok
    THEN apply_proposal_changes(applier, strategy, ProposalState_new(tree, r.val), commit_time)
    ELSE r

\* apply_proposals_from_member as a function of its inputs
apply_proposals_from_member(applier, tree, strategy, commit_sender, proposals, commit_time) ==
    state_of_rules(applier, tree, strategy, commit_time,
                   member_rules(1, applier, tree, strategy, commit_sender, commit_time,
                                [ok |-> TRUE, err |-> Error(""), val |-> proposals]))

\* the checks and rules of apply_proposals_from_new_member, chained by ?
new_member_rules(applier, tree, external_leaf, proposals) ==
    LET ensured ==
            and_then_ensure(
                and_then_ensure(
                    and_then_ensure(
                        and_then_ensure([ok |-> TRUE, err |-> Error(""), val |-> proposals],
                                        ensure_exactly_one_external_init(proposals)),
                        ensure_at_most_one_removal_for_self(proposals, external_leaf, tree)),
                    ensure_proposals_in_external_commit_are_allowed(proposals)),
                ensure_no_proposal_by_ref(proposals))
        proposers == filter_out_invalid_proposers("FailInvalidProposal", tree,
                                                  applier.original_group_extensions, proposals)
    IN IF ~ensured.ok THEN ensured
       ELSE IF ~proposers.ok THEN proposers
       ELSE filter_out_invalid_psks("FailInvalidProposal", proposers.val)

\* the external leaf joins the state the batch led to
and_then_insert_external_leaf(r, external_leaf) ==
    IF r.ok THEN insert_external_leaf(r.val, external_leaf) ELSE r

\* apply_proposals_from_new_member as a function of its inputs
apply_proposals_from_new_member(applier, tree, proposals, commit_time) ==
    IF applier.external_leaf = None
    THEN [ok |-> FALSE, err |-> Error("ExternalCommitMustHaveNewLeaf"), val |-> proposals]
    ELSE and_then_insert_external_leaf(
             state_of_rules(applier, tree, "FailInvalidProposal", commit_time,
                            new_member_rules(applier, tree, Unwrap(applier.external_leaf),
                                             proposals)),
             Unwrap(applier.external_leaf))

\* the last step of apply_proposals on the state its path returned
and_then_filter_custom(r, strategy) ==
    IF r.ok THEN filter_out_unsupported_custom_proposals(r.val, strategy) ELSE r

\* apply_proposals as a function of its inputs: the applier's fields and
\* tree, then the arguments of the call
apply_proposals(applier, tree, strategy, commit_sender, proposals, commit_time) ==
    and_then_filter_custom(
        CASE commit_sender.kind = "Member" ->
                 apply_proposals_from_member(applier, tree, strategy, commit_sender.idx,
                                             proposals, commit_time)
          [] commit_sender.kind = "NewMemberCommit" ->
                 apply_proposals_from_new_member(applier, tree, proposals, commit_time)
          [] OTHER -> [ok |-> FALSE, err |-> Error("ExternalSenderCannotCommit"),
                       val |-> proposals],
        strategy)

(***************************************************************************)
(* Sessions: the clients of one group around the applier.  Session::commit,*)
(* apply_pending_commit, process_incoming_bytes and Client::join_session   *)
(* live outside the listed sources; they are modelled from the             *)
(* specification and from their callers in tests/client_tests.rs.          *)
(***************************************************************************)
\* commits sent in one run
MaxCommits == 3

\* alice, who creates the group, and the clients she and others add
Clients == 0..2

VARIABLES
    sessions,         \* per client: its Session, once created or joined
    packets,          \* the commit packets sent so far, in the order sent
    reply             \* what the last call on a session returned

session_vars == << sessions, packets, reply >>

FounderLeaf == Leaf(0, 10, {"X"}, {"P"}, "Commit")

\* the leaf of the key package a client generates
gen_key_package(c) == Leaf(c, 10 + c, {"X"}, {"P"}, "KeyPackage")

\* the leaf a member proposes as its update in an epoch
propose_update(c, epoch) == Leaf(c, 50 + 10 * epoch + c, {"X"}, {"P"}, "Update")

\* TreeKemPublic::derive: a one-member tree with the leaf at index 0
derive(leaf) == [leaves |-> [i \in {0} |-> leaf], parents |-> [x \in {} |-> BlankParent]]

\* the committer's path: its leaf is refreshed and its direct path refilled
apply_update_path(tree, sender, epoch) ==
    [leaves |-> [tree.leaves EXCEPT ![sender] =
                    [@ EXCEPT !.src = "Commit", !.hpke = 100 + 10 * epoch + sender]],
     parents |-> [x \in DOMAIN tree.parents |->
                     IF x \in DirectPath(sender, LeafCount(tree)) THEN FilledParent
                     ELSE tree.parents[x]]]

NoSession ==
    [status |-> "new", active |-> FALSE, epoch |-> 0, tree |-> NoTree, leaf_index |-> 0,
     pending |-> None]

\* Client::create_session: the founder alone, at epoch 0
create_session(leaf) ==
    [status |-> "joined", active |-> TRUE, epoch |-> 0, tree |-> derive(leaf),
     leaf_index |-> 0, pending |-> None]

\* the applier a session runs on its group state
SessionApplier ==
    [protocol_version |-> 1, original_group_extensions |-> ExtensionList_new,
     original_required_capabilities |-> None, external_leaf |-> None]

\* apply_proposals on the group state of a session, for the commit of a member
apply_member_commit(session, strategy, sender, proposals) ==
    and_then_filter_custom(
        apply_proposals_from_member(SessionApplier, session.tree, strategy, sender.idx,
                                    proposals, None),
        strategy)

\* slip: a commit that changes no leaf stays in its epoch
next_epoch_of_changes(epoch, state) ==
    IF state.proposals = << >> THEN epoch ELSE epoch + 1

\* each accepted commit increments the epoch
next_epoch(epoch, state) == epoch + 1

\* the group state a commit of `sender` leads to, from the ProposalState of
\* its batch
provisional_state(session, sender, state) ==
    LET epoch == next_epoch(session.epoch, state)
    IN [epoch |-> epoch, tree |-> apply_update_path(state.tree, sender, epoch),
        added_indexes |-> state.added_indexes, removed_leaves |-> state.removed_leaves]

\* the session installs the new state
install(session, new) ==
    [session EXCEPT !.epoch = new.epoch, !.tree = new.tree, !.pending = None,
                    !.active = get_leaf_node(new.tree, session.leaf_index).ok]

\* slip: the receiver takes itself for the committer
commit_sender_self(session, packet) == Member(session.leaf_index)

\* the sender of a commit packet
commit_sender_of(session, packet) == Member(packet.sender)

\* slip: only the founder recognises its own packets
is_from_founder(session, packet) == packet.sender = session.leaf_index /\ packet.sender = 0

\* the packet was sent by this session
is_from_self(session, packet) == packet.sender = session.leaf_index

Replied(op, c, ok, err, epoch) == [op |-> op, client |-> c, ok |-> ok, err |-> err, epoch |-> epoch]

\* clients that hold no leaf in the tree and never joined
Addable(tree) ==
    {c \in Clients : sessions[c].status = "new"
                     /\ \A i \in non_empty_leaves(tree) : tree.leaves[i].sid # c}

\* the batches a member at leaf `me` hands to commit: nothing, by-value Adds
\* of key packages, a by-value Remove, a by-reference Update of another member
Batches(session) ==
    LET me == Member(session.leaf_index)
        tree == session.tree
        adds == {AddProposal(me, FALSE, gen_key_package(c)) : c \in Addable(tree)}
    IN {<< >>}
       \cup {<< a >> : a \in adds}
       \cup {ab \in adds \X adds : ab[1] # ab[2]}
       \cup {<< RemoveProposal(me, FALSE, j) >> : j \in non_empty_leaves(tree)}
       \cup {<< UpdateProposal(Member(j), TRUE, propose_update(tree.leaves[j].sid, session.epoch)) >> :
                j \in non_empty_leaves(tree) \ {session.leaf_index}}

\* the clients whose key packages a bundle adds
Welcomed(bundle) == {bundle[k].leaf.sid : k \in PositionsOf(bundle, "ADD")}

\* no session exists
SessionsIdle ==
    /\ sessions = [c \in Clients |-> NoSession]
    /\ packets = << >>
    /\ reply = Replied("", 0, TRUE, "", 0)

(***************************************************************************)
(* BasicIdentityProvider (aws-mls/src/identity/basic.rs) and the signing   *)
(* identities it is asked about                                            *)
(***************************************************************************)
VARIABLES
    identity_call,    \* a call on the basic identity provider: its name and arguments
    identity_result   \* Option of what the call returned

identity_vars == << identity_call, identity_result >>

\* Credential: its type and the bytes it carries (the identifier of a basic
\* credential, the certificate chain of an X.509 one)
Credential(type, bytes) == [type |-> type, bytes |-> bytes]

SigningIdentity(credential, signature_key) ==
    [credential |-> credential, signature_key |-> signature_key]

\* Credential::as_basic : Option<&BasicCredential>
as_basic(credential) ==
    IF credential.type = "BASIC" THEN Some([identifier |-> credential.bytes]) ELSE None

credential_type(credential) == credential.type

BasicIdentityProviderError(type) ==
    [name |-> "BasicIdentityProviderError", credential_type |-> type]

\* slip: anything but an X.509 credential is taken for a basic one
resolve_non_x509_identity(signing_id) ==
    IF signing_id.credential.type # "X509"
    THEN [ok |-> TRUE, val |-> [identifier |-> signing_id.credential.bytes],
          err |-> BasicIdentityProviderError("")]
    ELSE [ok |-> FALSE, val |-> [identifier |-> << >>],
          err |-> BasicIdentityProviderError(credential_type(signing_id.credential))]

\* Result<&BasicCredential, BasicIdentityProviderError>
resolve_basic_identity(signing_id) ==
    LET basic == as_basic(signing_id.credential)
    IN IF basic # None
       THEN [ok |-> TRUE, val |-> Unwrap(basic), err |-> BasicIdentityProviderError("")]
       ELSE [ok |-> FALSE, val |-> [identifier |-> << >>],
             err |-> BasicIdentityProviderError(credential_type(signing_id.credential))]

\* Result<(), BasicIdentityProviderError>
BasicIdentityProvider_validate_member(signing_identity, timestamp, extensions) ==
    LET r == resolve_basic_identity(signing_identity)
    IN [ok |-> r.ok, val |-> << >>, err |-> r.err]

BasicIdentityProvider_validate_external_sender(signing_identity, timestamp, extensions) ==
    LET r == resolve_basic_identity(signing_identity)
    IN [ok |-> r.ok, val |-> << >>, err |-> r.err]

\* Result<Vec<u8>, BasicIdentityProviderError>
BasicIdentityProvider_identity(signing_identity) ==
    LET r == resolve_basic_identity(signing_identity)
    IN [ok |-> r.ok, val |-> r.val.identifier, err |-> r.err]

\* slip: the signing identities are compared, keys included
BasicIdentityProvider_same_identity(predecessor, successor) ==
    LET p == resolve_basic_identity(predecessor)
        s == resolve_basic_identity(successor)
    IN IF ~p.ok THEN [ok |-> FALSE, val |-> FALSE, err |-> p.err]
       ELSE IF ~s.ok THEN [ok |-> FALSE, val |-> FALSE, err |-> s.err]
       ELSE [ok |-> TRUE, val |-> (predecessor = successor),
             err |-> BasicIdentityProviderError("")]

\* Result<bool, BasicIdentityProviderError>
BasicIdentityProvider_valid_successor(predecessor, successor) ==
    LET p == resolve_basic_identity(predecessor)
        s == resolve_basic_identity(successor)
    IN IF ~p.ok THEN [ok |-> FALSE, val |-> FALSE, err |-> p.err]
       ELSE IF ~s.ok THEN [ok |-> FALSE, val |-> FALSE, err |-> s.err]
       ELSE [ok |-> TRUE, val |-> (p.val = s.val), err |-> BasicIdentityProviderError("")]

BasicIdentityProvider_supported_types == << "BASIC" >>

\* ensure_removal_is_for_self with the basic provider as identity provider,
\* on the signing identities of the tree's leaves (None for a blank slot)
ensure_removal_is_for_self_basic(to_remove, external_signing_identity, roster) ==
    LET existing == IF to_remove \in DOMAIN roster /\ roster[to_remove] # None
                    THEN [ok |-> TRUE, err |-> "", val |-> Unwrap(roster[to_remove])]
                    ELSE [ok |-> FALSE, err |-> "RatchetTreeError", val |-> None]
        succ == BasicIdentityProvider_valid_successor(existing.val, external_signing_identity)
    IN IF ~existing.ok THEN [ok |-> FALSE, err |-> existing.err]
       ELSE IF ~succ.ok THEN [ok |-> FALSE, err |-> "CredentialValidationError"]
       ELSE IF succ.val THEN [ok |-> TRUE, err |-> ""]
       ELSE [ok |-> FALSE, err |-> "ExternalCommitRemovesOtherIdentity"]

\* the credentials, signing identities, timestamps and extension lists the
\* provider is asked about
Credentials ==
    {Credential("BASIC", << 1 >>), Credential("BASIC", << 2 >>), Credential("X509", << 1 >>),
     Credential("CUSTOM", << 1 >>)}

SigningIdentities == {SigningIdentity(c, k) : c \in Credentials, k \in {"pk1", "pk2"}}

Timestamps == {None, Some(1), Some(9)}

ExtensionLists == {None, Some(ExtensionList_new), Some(ExtensionList({"X"}, None, << >>, {}))}

\* the signing identities of the leaves of a tree of two slots
Rosters ==
    {[i \in 0..1 |-> IF i = 0 THEN Some(a) ELSE b] :
        a \in {SigningIdentity(Credential("BASIC", << 1 >>), "pk1"),
               SigningIdentity(Credential("X509", << 1 >>), "pk1")},
        b \in {None, Some(SigningIdentity(Credential("BASIC", << 2 >>), "pk2"))}}

NoIdentityCall ==
    [op |-> "none", signing_identity |-> None, successor |-> None, timestamp |-> None,
     extensions |-> None, roster |-> << >>, to_remove |-> 0]

IdentityIdle == identity_call = NoIdentityCall /\ identity_result = None

\* the calls on the provider
IdentityCalls ==
    {[NoIdentityCall EXCEPT !.op = op, !.signing_identity = Some(i), !.timestamp = t,
                            !.extensions = e] :
        op \in {"validate_member", "validate_external_sender"}, i \in SigningIdentities,
        t \in Timestamps, e \in ExtensionLists}
    \cup {[NoIdentityCall EXCEPT !.op = "identity", !.signing_identity = Some(i)] :
            i \in SigningIdentities}
    \cup {[NoIdentityCall EXCEPT !.op = "valid_successor", !.signing_identity = Some(p),
                                 !.successor = Some(s)] :
            p \in SigningIdentities, s \in SigningIdentities}
    \cup {[NoIdentityCall EXCEPT !.op = "ensure_removal_is_for_self", !.successor = Some(s),
                                 !.roster = r, !.to_remove = i] :
            s \in SigningIdentities, r \in Rosters, i \in 0..2}

(***************************************************************************)
(* Signed message content: MLSContentTBS, built from a plaintext and       *)
(* written to and read from its TLS encoding                               *)
(***************************************************************************)
VARIABLES
    tbs_call,         \* how the MLSContentTBS comes about: from_plaintext or a struct literal
    tbs_value,        \* Option of the MLSContentTBS
    tbs_bytes,        \* Option of its tls_serialize output
    tbs_back          \* Option of what tls_deserialize made of these bytes

content_vars == << tbs_call, tbs_value, tbs_bytes, tbs_back >>

GroupContext(group_id, epoch, tree_hash) ==
    [group_id |-> group_id, epoch |-> epoch, tree_hash |-> tree_hash]

MLSContent(group_id, epoch, sender, content_type) ==
    [group_id |-> group_id, epoch |-> epoch, sender |-> sender, content_type |-> content_type]

MLSPlaintext(content, signature) == [content |-> content, auth |-> [signature |-> signature]]

MLSContentTBS(wire_format, content, context) ==
    [wire_format |-> wire_format, content |-> content, context |-> context]

\* what a read from the byte stream gives: the value and the bytes left
ReadOk(val, rest) == [ok |-> TRUE, err |-> "", val |-> val, rest |-> rest]

EndOfStream == [ok |-> FALSE, err |-> "EndOfStream", val |-> None, rest |-> << >>]

DecodingError == [ok |-> FALSE, err |-> "DecodingError", val |-> None, rest |-> << >>]

Rest(bytes, from) == SubSeq(bytes, from, Len(bytes))

\* an integer field: one element of the stream
Uint_tls_deserialize(bytes) ==
    IF bytes = << >> THEN EndOfStream ELSE ReadOk(bytes[1], Rest(bytes, 2))

\* a byte vector: its length, then its bytes
ByteVec_tls_serialize(v) == << Len(v) >> \o v

ByteVec_tls_deserialize(bytes) ==
    IF bytes = << >> THEN EndOfStream
    ELSE IF Len(bytes) - 1 < bytes[1] THEN EndOfStream
    ELSE ReadOk(SubSeq(bytes, 2, 1 + bytes[1]), Rest(bytes, 2 + bytes[1]))

WireFormat_tls_serialize(wire_format) == << IF wire_format = "Plain" THEN 1 ELSE 2 >>

WireFormat_tls_deserialize(bytes) ==
    IF bytes = << >> THEN EndOfStream
    ELSE IF bytes[1] = 1 THEN ReadOk("Plain", Rest(bytes, 2))
    ELSE IF bytes[1] = 2 THEN ReadOk("Cipher", Rest(bytes, 2))
    ELSE DecodingError

ContentTypes == << "Application", "Proposal", "Commit" >>

ContentType_tls_serialize(content_type) ==
    << CHOOSE k \in 1..Len(ContentTypes) : ContentTypes[k] = content_type >>

ContentType_tls_deserialize(bytes) ==
    IF bytes = << >> THEN EndOfStream
    ELSE IF bytes[1] \in 1..Len(ContentTypes) THEN ReadOk(ContentTypes[bytes[1]], Rest(bytes, 2))
    ELSE DecodingError

\* the sender type, then the index of a member or of an external sender
Sender_tls_serialize(sender) ==
    IF sender.kind = "Member" THEN << 1, sender.idx >>
    ELSE IF sender.kind = "External" THEN << 2, sender.idx >>
    ELSE IF sender.kind = "NewMemberProposal" THEN << 3 >>
    ELSE << 4 >>

Sender_tls_deserialize(bytes) ==
    IF bytes = << >> THEN EndOfStream
    ELSE IF bytes[1] \in {1, 2}
    THEN IF Len(bytes) < 2 THEN EndOfStream
         ELSE ReadOk(IF bytes[1] = 1 THEN Member(bytes[2]) ELSE External(bytes[2]), Rest(bytes, 3))
    ELSE IF bytes[1] = 3 THEN ReadOk(NewMemberProposal, Rest(bytes, 2))
    ELSE IF bytes[1] = 4 THEN ReadOk(NewMemberCommit, Rest(bytes, 2))
    ELSE DecodingError

MLSContent_tls_serialize(content) ==
    ByteVec_tls_serialize(content.group_id) \o << content.epoch >>
        \o Sender_tls_serialize(content.sender)
        \o ContentType_tls_serialize(content.content_type)

MLSContent_read_content_type(group_id, epoch, sender, read) ==
    IF ~read.ok THEN read
    ELSE ReadOk(MLSContent(group_id, epoch, sender, read.val), read.rest)

MLSContent_read_sender(group_id, epoch, read) ==
    IF ~read.ok THEN read
    ELSE MLSContent_read_content_type(group_id, epoch, read.val,
                                      ContentType_tls_deserialize(read.rest))

MLSContent_read_epoch(group_id, read) ==
    IF ~read.ok THEN read
    ELSE MLSContent_read_sender(group_id, read.val, Sender_tls_deserialize(read.rest))

MLSContent_read_group_id(read) ==
    IF ~read.ok THEN read
    ELSE MLSContent_read_epoch(read.val, Uint_tls_deserialize(read.rest))

MLSContent_tls_deserialize(bytes) == MLSContent_read_group_id(ByteVec_tls_deserialize(bytes))

GroupContext_tls_serialize(context) ==
    ByteVec_tls_serialize(context.group_id) \o << context.epoch >>
        \o ByteVec_tls_serialize(context.tree_hash)

GroupContext_read_tree_hash(group_id, epoch, read) ==
    IF ~read.ok THEN read
    ELSE ReadOk(GroupContext(group_id, epoch, read.val), read.rest)

GroupContext_read_epoch(group_id, read) ==
    IF ~read.ok THEN read
    ELSE GroupContext_read_tree_hash(group_id, read.val, ByteVec_tls_deserialize(read.rest))

GroupContext_read_group_id(read) ==
    IF ~read.ok THEN read
    ELSE GroupContext_read_epoch(read.val, Uint_tls_deserialize(read.rest))

GroupContext_tls_deserialize(bytes) == GroupContext_read_group_id(ByteVec_tls_deserialize(bytes))

\* impl Serialize for MLSContentTBS: the wire format, the content, and the
\* context if there is one
MLSContentTBS_tls_serialize(tbs) ==
    WireFormat_tls_serialize(tbs.wire_format)
        \o MLSContent_tls_serialize(tbs.content)
        \o (IF tbs.context = None THEN << >> ELSE GroupContext_tls_serialize(Unwrap(tbs.context)))

\* the senders whose messages are signed over the group context
SenderBindsContext(sender) == sender.kind \in {"Member", "NewMemberCommit"}

MLSContentTBS_read_context(wire_format, content, read) ==
    IF ~read.ok THEN read
    ELSE ReadOk(MLSContentTBS(wire_format, content, Some(read.val)), read.rest)

\* slip: a group context is read whoever the sender is
MLSContentTBS_read_content_with_context(wire_format, read) ==
    IF ~read.ok THEN read
    ELSE MLSContentTBS_read_context(wire_format, read.val,
                                    GroupContext_tls_deserialize(read.rest))

MLSContentTBS_read_content(wire_format, read) ==
    IF ~read.ok THEN read
    ELSE IF SenderBindsContext(read.val.sender)
    THEN MLSContentTBS_read_context(wire_format, read.val,
                                    GroupContext_tls_deserialize(read.rest))
    ELSE ReadOk(MLSContentTBS(wire_format, read.val, None), read.rest)

MLSContentTBS_read_wire_format(read) ==
    IF ~read.ok THEN read
    ELSE MLSContentTBS_read_content(read.val, MLSContent_tls_deserialize(read.rest))

\* impl Deserialize for MLSContentTBS
MLSContentTBS_tls_deserialize(bytes) ==
    MLSContentTBS_read_wire_format(WireFormat_tls_deserialize(bytes))

\* slip: the supplied group context is kept whoever the sender is
MLSContentTBS_from_plaintext_with_context(plaintext, group_context, encrypted) ==
    MLSContentTBS(IF encrypted THEN "Cipher" ELSE "Plain", plaintext.content, group_context)

\* MLSContentTBS::from_plaintext
MLSContentTBS_from_plaintext(plaintext, group_context, encrypted) ==
    MLSContentTBS(IF encrypted THEN "Cipher" ELSE "Plain",
                  plaintext.content,
                  IF SenderBindsContext(plaintext.content.sender) THEN group_context ELSE None)

\* the contents, group contexts and plaintexts of the model
MessageSenders == {Member(0), Member(1), NewMemberCommit, External(0), NewMemberProposal}

MessageContents ==
    {MLSContent(<< 7 >>, e, s, t) :
        e \in 0..1, s \in MessageSenders, t \in {"Application", "Proposal", "Commit"}}

GroupContexts ==
    {None, Some(GroupContext(<< 7 >>, 1, << 5 >>)), Some(GroupContext(<< 7, 7 >>, 0, << >>))}

NoContentCall ==
    [op |-> "none", plaintext |-> None, group_context |-> None, encrypted |-> FALSE,
     literal |-> None]

ContentIdle ==
    /\ tbs_call = NoContentCall
    /\ tbs_value = None
    /\ tbs_bytes = None
    /\ tbs_back = None

ContentCalls ==
    {[NoContentCall EXCEPT !.op = "from_plaintext", !.plaintext = Some(MLSPlaintext(c, << >>)),
                           !.group_context = g, !.encrypted = e] :
        c \in MessageContents, g \in GroupContexts, e \in BOOLEAN}
    \cup {[NoContentCall EXCEPT !.op = "literal", !.literal = Some(MLSContentTBS(w, c, g))] :
            w \in {"Plain", "Cipher"}, c \in MessageContents, g \in GroupContexts}

(***************************************************************************)
(* The test harness: MlsClientImpl, its two Mutex<Vec<_>> fields, and the  *)
(* RPC handlers that run on the threads of the server                      *)
(***************************************************************************)
VARIABLES
    clients_mutex,    \* MlsClientImpl.clients: who holds the lock, poisoned or not, the Vec
    sessions_mutex,   \* MlsClientImpl.sessions: the same
    rpcs              \* per RPC: the handler, its argument, where it is, what it replied

harness_vars == << clients_mutex, sessions_mutex, rpcs >>

MaxRpcs == 4

RpcIds == 1..MaxRpcs

\* Mutex::default(): unlocked, not poisoned, an empty Vec
Mutex_default == [owner |-> 0, poisoned |-> FALSE, data |-> << >>]

\* the guard of r is dropped: on a panic of r the mutex is poisoned
MutexGuard_drop(mutex, r, panicking) ==
    IF mutex.owner = r
    THEN [mutex EXCEPT !.owner = 0, !.poisoned = @ \/ panicking]
    ELSE mutex

NoReply == [status |-> "none", id |-> 0]

Response(id) == [status |-> "Ok", id |-> id]

Status_aborted == [status |-> "Err", id |-> 0]

Panicked == [status |-> "panic", id |-> 0]

\* where each handler starts
FirstStep(kind) ==
    IF kind = "create_group" THEN "create_session"
    ELSE IF kind \in {"create_key_package", "join_group"} THEN "lock_clients"
    ELSE "lock_sessions"

Rpc(kind, arg) == [kind |-> kind, arg |-> arg, pc |-> FirstStep(kind), reply |-> NoReply]

NoRpc == [kind |-> "none", arg |-> 0, pc |-> "done", reply |-> NoReply]

\* the requests, in an order: join_group names a transaction_id, the handlers that work
\* on a session (protect, unprotect, the proposals, commit, handle_commit,
\* handle_pending_commit) name a state_id
RequestOrder ==
    << Rpc("create_group", 0), Rpc("create_key_package", 0), Rpc("join_group", 0),
       Rpc("join_group", 1), Rpc("protect", 0), Rpc("protect", 1) >>

Requests == {RequestOrder[k] : k \in 1..Len(RequestOrder)}

\* the numbering of the RPCs in flight is arbitrary: they are numbered in
\* the order of their requests
RankOf(request) == CHOOSE k \in 1..Len(RequestOrder) : RequestOrder[k] = request

InRequestOrder(calls) == \A r \in 1..(MaxRpcs - 1) : RankOf(calls[r]) <= RankOf(calls[r + 1])

\* slip: the state id counts from zero
state_id_from_zero(sessions_vec) == Len(sessions_vec) - 1

\* state_id: sessions.len() as u32
state_id_of(sessions_vec) == Len(sessions_vec)

HarnessIdle ==
    /\ clients_mutex = Mutex_default
    /\ sessions_mutex = Mutex_default
    /\ rpcs = [r \in RpcIds |-> NoRpc]

\* what lies outside the applier and the sessions
library_vars == << identity_vars, content_vars, harness_vars >>

LibraryIdle == IdentityIdle /\ ContentIdle /\ HarnessIdle

(***************************************************************************)
(* The applier as a state machine: one step per function of the pipeline   *)
(***************************************************************************)
VARIABLES
    self,             \* the ProposalApplier: its fields besides original_tree
    args,             \* the arguments of the apply_proposals call
    trees,            \* the trees in memory: the applier's original_tree and the clone
    local_proposals,  \* the bundle as filtered so far
    local_state,      \* Option<ProposalState>; its tree names a tree in memory
    result,           \* what the caller holds
    pc,               \* the function that runs next
    trace             \* what the call has done so far, in order

vars == << self, args, trees, local_proposals, local_state, result, pc, trace >>

Pending == [kind |-> "Pending", err |-> Error(""), at |-> "", state |-> None]

\* slip: the ExternalInit rule runs when the tree has been edited
MemberSteps_with_late_rule ==
    << "apply_proposals", "filter_out_invalid_proposers", "filter_out_update_for_committer",
       "filter_out_removal_of_committer", "filter_out_extra_removal_or_update_for_same_leaf",
       "filter_out_invalid_psks", "filter_out_invalid_group_extensions",
       "filter_out_extra_group_context_extensions", "filter_out_invalid_reinit",
       "filter_out_reinit_if_other_proposals",
       "ProposalState_new", "apply_proposal_changes", "filter_out_external_init",
       "filter_out_unsupported_custom_proposals", "done" >>

MemberSteps ==
    << "apply_proposals", "filter_out_invalid_proposers", "filter_out_update_for_committer",
       "filter_out_removal_of_committer", "filter_out_extra_removal_or_update_for_same_leaf",
       "filter_out_invalid_psks", "filter_out_invalid_group_extensions",
       "filter_out_extra_group_context_extensions", "filter_out_invalid_reinit",
       "filter_out_reinit_if_other_proposals", "filter_out_external_init",
       "ProposalState_new", "apply_proposal_changes",
       "filter_out_unsupported_custom_proposals", "done" >>

NewMemberSteps ==
    << "apply_proposals", "external_leaf", "ensure_exactly_one_external_init",
       "ensure_at_most_one_removal_for_self",
       "ensure_proposals_in_external_commit_are_allowed", "ensure_no_proposal_by_ref",
       "filter_out_invalid_proposers", "filter_out_invalid_psks", "ProposalState_new",
       "apply_proposal_changes", "insert_external_leaf",
       "filter_out_unsupported_custom_proposals", "done" >>

FromMember == args.commit_sender.kind = "Member"

Steps == IF FromMember THEN MemberSteps ELSE NewMemberSteps

NextPc == Steps[1 + CHOOSE j \in 1..Len(Steps) : Steps[j] = pc]

\* the member path uses the caller's strategy, the external commit path
\* FailInvalidProposal
StrategyInUse == IF FromMember THEN args.strategy ELSE "FailInvalidProposal"

Init ==
    \E g \in Groups, s \in Strategies : \E c \in Calls(g, s) :
        /\ self = [protocol_version |-> c.group.protocol_version,
                   original_group_extensions |-> c.group.extensions,
                   original_required_capabilities |-> c.group.required_capabilities,
                   external_leaf |-> c.external_leaf]
        /\ args = [strategy |-> c.strategy, commit_sender |-> c.commit_sender,
                   proposals |-> c.proposals, commit_time |-> c.commit_time,
                   tree_at_call |-> c.group.tree]
        /\ trees = [original |-> c.group.tree, working |-> NoTree]
        /\ local_proposals = c.proposals
        /\ local_state = None
        /\ result = Pending
        /\ pc = "apply_proposals"
        /\ trace = << >>
        /\ SessionsIdle
        /\ LibraryIdle

\* an error return drops the bundle and the state the call was working on;
\* result.at records the function that raised the error
Fail(e) ==
    /\ result' = [kind |-> "Err", err |-> e, at |-> pc, state |-> None]
    /\ local_proposals' = << >>
    /\ local_state' = None
    /\ pc' = "done"

\* a step on the bundle alone
BundleStep(r) ==
    IF r.ok
    THEN /\ local_proposals' = r.val
         /\ pc' = NextPc
         /\ UNCHANGED << self, args, trees, local_state, result >>
    ELSE /\ Fail(r.err)
         /\ UNCHANGED << self, args, trees >>

\* slip: the state's tree is read from the applier's own tree
Loaded_from_original(state) == [state EXCEPT !.tree = trees.original]

\* the ProposalState with its tree read from memory
Loaded(state) == [state EXCEPT !.tree = trees[@]]

\* a step on the ProposalState: its tree is written where the state's tree
\* lives; on an error the state, and the clone it owns, are dropped
StateStep(r) ==
    LET at == Unwrap(local_state).tree
        written == [trees EXCEPT ![at] = r.val.tree]
    IN IF r.ok
       THEN /\ trees' = written
            /\ local_state' = Some([r.val EXCEPT !.tree = at])
            /\ pc' = NextPc
            /\ UNCHANGED << self, args, local_proposals, result >>
       ELSE /\ Fail(r.err)
            /\ trees' = [written EXCEPT !.working = NoTree]
            /\ UNCHANGED << self, args >>

\* what a step other than the tree-changes phase is
KindOfStep ==
    CASE pc = "apply_proposals" -> "call"
      [] pc = "external_leaf" -> "call"
      [] pc = "ProposalState_new" -> "clone"
      [] OTHER -> "rule"

\* the step adds its events to the trace and leaves the rest alone
Logged(events) ==
    /\ trace' = trace \o events
    /\ UNCHANGED << session_vars, library_vars >>

\* slip: only External senders are turned away
ApplyProposals_new_member_proposal ==
    /\ pc = "apply_proposals"
    /\ IF args.commit_sender.kind \in {"Member", "NewMemberCommit", "NewMemberProposal"}
       THEN /\ pc' = NextPc
            /\ UNCHANGED << self, args, trees, local_proposals, local_state, result >>
       ELSE /\ Fail(Error("ExternalSenderCannotCommit"))
            /\ UNCHANGED << self, args, trees >>
    /\ Logged(<< Ev(KindOfStep, pc) >>)

\* apply_proposals: dispatch on the commit sender
ApplyProposals ==
    /\ pc = "apply_proposals"
    /\ IF args.commit_sender.kind \in {"Member", "NewMemberCommit"}
       THEN /\ pc' = NextPc
            /\ UNCHANGED << self, args, trees, local_proposals, local_state, result >>
       ELSE /\ Fail(Error("ExternalSenderCannotCommit"))
            /\ UNCHANGED << self, args, trees >>
    /\ Logged(<< Ev(KindOfStep, pc) >>)

FilterOutInvalidProposers ==
    /\ pc = "filter_out_invalid_proposers"
    /\ BundleStep(filter_out_invalid_proposers(StrategyInUse, trees.original,
                                               self.original_group_extensions, local_proposals))
    /\ Logged(<< Ev(KindOfStep, pc) >>)

FilterOutUpdateForCommitter ==
    /\ pc = "filter_out_update_for_committer"
    /\ BundleStep(filter_out_update_for_committer(StrategyInUse, args.commit_sender.idx,
                                                  local_proposals))
    /\ Logged(<< Ev(KindOfStep, pc) >>)

FilterOutRemovalOfCommitter ==
    /\ pc = "filter_out_removal_of_committer"
    /\ BundleStep(filter_out_removal_of_committer(StrategyInUse, args.commit_sender.idx,
                                                  local_proposals))
    /\ Logged(<< Ev(KindOfStep, pc) >>)

FilterOutExtraRemovalOrUpdateForSameLeaf ==
    /\ pc = "filter_out_extra_removal_or_update_for_same_leaf"
    /\ BundleStep(filter_out_extra_removal_or_update_for_same_leaf(StrategyInUse,
                                                                   local_proposals))
    /\ Logged(<< Ev(KindOfStep, pc) >>)

FilterOutInvalidPsks ==
    /\ pc = "filter_out_invalid_psks"
    /\ BundleStep(filter_out_invalid_psks(StrategyInUse, local_proposals))
    /\ Logged(<< Ev(KindOfStep, pc) >>)

FilterOutInvalidGroupExtensions ==
    /\ pc = "filter_out_invalid_group_extensions"
    /\ BundleStep(filter_out_invalid_group_extensions(StrategyInUse, local_proposals,
                                                      args.commit_time))
    /\ Logged(<< Ev(KindOfStep, pc) >>)

FilterOutExtraGroupContextExtensions ==
    /\ pc = "filter_out_extra_group_context_extensions"
    /\ BundleStep(filter_out_extra_group_context_extensions(StrategyInUse, local_proposals))
    /\ Logged(<< Ev(KindOfStep, pc) >>)

FilterOutInvalidReinit ==
    /\ pc = "filter_out_invalid_reinit"
    /\ BundleStep(filter_out_invalid_reinit(StrategyInUse, local_proposals,
                                            self.protocol_version))
    /\ Logged(<< Ev(KindOfStep, pc) >>)

FilterOutReinitIfOtherProposals ==
    /\ pc = "filter_out_reinit_if_other_proposals"
    /\ BundleStep(filter_out_reinit_if_other_proposals(StrategyInUse, local_proposals))
    /\ Logged(<< Ev(KindOfStep, pc) >>)

FilterOutExternalInit ==
    /\ pc = "filter_out_external_init"
    /\ BundleStep(filter_out_external_init(StrategyInUse, args.commit_sender.idx,
                                           local_proposals))
    /\ Logged(<< Ev(KindOfStep, pc) >>)

\* self.external_leaf.ok_or(ExternalCommitMustHaveNewLeaf)
ExternalLeafOrError ==
    /\ pc = "external_leaf"
    /\ BundleStep(IF self.external_leaf = None
                  THEN [ok |-> FALSE, err |-> Error("ExternalCommitMustHaveNewLeaf"),
                        val |-> local_proposals]
                  ELSE [ok |-> TRUE, err |-> Error(""), val |-> local_proposals])
    /\ Logged(<< Ev(KindOfStep, pc) >>)

\* a check that leaves the bundle as it is
Ensured(r) == [ok |-> r.ok, err |-> r.err, val |-> local_proposals]

EnsureExactlyOneExternalInit ==
    /\ pc = "ensure_exactly_one_external_init"
    /\ BundleStep(Ensured(ensure_exactly_one_external_init(local_proposals)))
    /\ Logged(<< Ev(KindOfStep, pc) >>)

EnsureAtMostOneRemovalForSelf ==
    /\ pc = "ensure_at_most_one_removal_for_self"
    /\ BundleStep(Ensured(ensure_at_most_one_removal_for_self(
                              local_proposals, Unwrap(self.external_leaf), trees.original)))
    /\ Logged(<< Ev(KindOfStep, pc) >>)

EnsureProposalsInExternalCommitAreAllowed ==
    /\ pc = "ensure_proposals_in_external_commit_are_allowed"
    /\ BundleStep(Ensured(ensure_proposals_in_external_commit_are_allowed(local_proposals)))
    /\ Logged(<< Ev(KindOfStep, pc) >>)

EnsureNoProposalByRef ==
    /\ pc = "ensure_no_proposal_by_ref"
    /\ BundleStep(Ensured(ensure_no_proposal_by_ref(local_proposals)))
    /\ Logged(<< Ev(KindOfStep, pc) >>)

\* slip: the state is built on the applier's own tree, not on a clone
original_tree_shared == [at |-> "original", trees |-> trees]

\* self.original_tree.clone(): where the clone lives, and memory after it
original_tree_clone ==
    [at |-> "working", trees |-> [trees EXCEPT !.working = trees.original]]

\* ProposalState::new(self.original_tree.clone(), proposals)
NewProposalState ==
    /\ pc = "ProposalState_new"
    /\ trees' = original_tree_clone.trees
    /\ local_state' = Some(ProposalState_new(original_tree_clone.at, local_proposals))
    /\ local_proposals' = << >>
    /\ pc' = NextPc
    /\ UNCHANGED << self, args, result >>
    /\ Logged(<< Ev(KindOfStep, pc) >>)

ApplyProposalChanges ==
    /\ pc = "apply_proposal_changes"
    /\ StateStep(apply_proposal_changes(self, StrategyInUse, Loaded(Unwrap(local_state)),
                                        args.commit_time))
    /\ Logged(events_of_proposal_changes(self, StrategyInUse, Loaded(Unwrap(local_state)),
                                         args.commit_time))

InsertExternalLeaf ==
    /\ pc = "insert_external_leaf"
    /\ StateStep(insert_external_leaf(Loaded(Unwrap(local_state)), Unwrap(self.external_leaf)))
    /\ Logged(events_of_insert_external_leaf(Loaded(Unwrap(local_state)),
                                             Unwrap(self.external_leaf)))

\* the last step of apply_proposals hands the state to the caller
FilterOutUnsupportedCustomProposals ==
    /\ pc = "filter_out_unsupported_custom_proposals"
    /\ LET r == filter_out_unsupported_custom_proposals(Loaded(Unwrap(local_state)),
                                                        args.strategy)
       IN IF r.ok
          THEN /\ result' = [kind |-> "Ok", err |-> Error(""), at |-> pc,
                             state |-> Some([r.val EXCEPT !.tree = Unwrap(local_state).tree])]
               /\ local_state' = None
               /\ pc' = "done"
               /\ UNCHANGED << self, args, trees, local_proposals >>
          ELSE /\ Fail(r.err)
               /\ trees' = [trees EXCEPT !.working = NoTree]
               /\ UNCHANGED << self, args >>
    /\ Logged(<< Ev(KindOfStep, pc) >>)

Next ==
    \/ ApplyProposals
    \/ FilterOutInvalidProposers
    \/ FilterOutUpdateForCommitter
    \/ FilterOutRemovalOfCommitter
    \/ FilterOutExtraRemovalOrUpdateForSameLeaf
    \/ FilterOutInvalidPsks
    \/ FilterOutInvalidGroupExtensions
    \/ FilterOutExtraGroupContextExtensions
    \/ FilterOutInvalidReinit
    \/ FilterOutReinitIfOtherProposals
    \/ FilterOutExternalInit
    \/ ExternalLeafOrError
    \/ EnsureExactlyOneExternalInit
    \/ EnsureAtMostOneRemovalForSelf
    \/ EnsureProposalsInExternalCommitAreAllowed
    \/ EnsureNoProposalByRef
    \/ NewProposalState
    \/ ApplyProposalChanges
    \/ InsertExternalLeaf
    \/ FilterOutUnsupportedCustomProposals

Spec == Init /\ [][Next]_vars

(***************************************************************************)
(* The sessions as a state machine: one step per call on a session         *)
(***************************************************************************)
\* no apply_proposals call of its own is in progress
ApplierIdle ==
    /\ self = SessionApplier
    /\ args = [strategy |-> "FailInvalidProposal", commit_sender |-> Member(0),
               proposals |-> << >>, commit_time |-> None, tree_at_call |-> NoTree]
    /\ trees = [original |-> NoTree, working |-> NoTree]
    /\ local_proposals = << >>
    /\ local_state = None
    /\ result = Pending
    /\ pc = "idle"
    /\ trace = << >>

\* alice has created the group
SessionInit ==
    /\ sessions = [c \in Clients |-> IF c = 0 THEN create_session(FounderLeaf) ELSE NoSession]
    /\ packets = << >>
    /\ reply = Replied("create_session", 0, TRUE, "", 0)
    /\ ApplierIdle
    /\ LibraryIdle

\* what commit does with the outcome r of the applier
Committed(c, session, r) ==
    IF r.ok
    THEN /\ sessions' = [sessions EXCEPT ![c].pending =
                Some(provisional_state(session, session.leaf_index, r.val))]
         /\ packets' = Append(packets, [sender |-> session.leaf_index,
                                        epoch |-> session.epoch,
                                        proposals |-> r.val.proposals,
                                        welcome |-> Welcomed(r.val.proposals)])
         /\ reply' = Replied("commit", c, TRUE, "", session.epoch)
    ELSE /\ reply' = Replied("commit", c, FALSE, r.err.name, session.epoch)
         /\ UNCHANGED << sessions, packets >>

\* Session::commit: the batch is applied to a clone of the tree, the result
\* is kept as the pending commit and the packet is handed to the caller
SessionCommit ==
    \E c \in Clients : \E batch \in Batches(sessions[c]), strategy \in Strategies :
        /\ sessions[c].status = "joined" /\ sessions[c].active
        /\ sessions[c].pending = None
        /\ Len(packets) < MaxCommits
        /\ \A k \in 1..Len(packets) : packets[k].epoch # sessions[c].epoch
        /\ Committed(c, sessions[c],
                     apply_member_commit(sessions[c], strategy,
                                         Member(sessions[c].leaf_index), batch))
        /\ UNCHANGED << vars, library_vars >>

\* Session::apply_pending_commit: the committer installs its pending commit
ApplyPendingCommit ==
    \E c \in Clients :
        LET session == sessions[c]
        IN /\ session.status = "joined"
           /\ session.pending # None
           /\ sessions' = [sessions EXCEPT ![c] = install(session, Unwrap(session.pending))]
           /\ reply' = Replied("apply_pending_commit", c, TRUE, "",
                               Unwrap(session.pending).epoch)
           /\ UNCHANGED packets
           /\ UNCHANGED << vars, library_vars >>

\* what process_incoming_bytes does with the outcome r of the applier
Processed(c, session, sender, r) ==
    IF r.ok
    THEN /\ sessions' = [sessions EXCEPT ![c] =
                install(session, provisional_state(session, sender.idx, r.val))]
         /\ reply' = Replied("process_incoming_bytes", c, TRUE, "",
                             provisional_state(session, sender.idx, r.val).epoch)
    ELSE /\ reply' = Replied("process_incoming_bytes", c, FALSE, r.err.name, session.epoch)
         /\ UNCHANGED sessions

\* Session::process_incoming_bytes on a commit packet of the session's epoch
ProcessIncomingBytes ==
    \E c \in Clients, k \in 1..Len(packets), strategy \in Strategies :
        /\ sessions[c].status = "joined" /\ sessions[c].active
        /\ packets[k].epoch = sessions[c].epoch
        /\ IF is_from_self(sessions[c], packets[k])
           THEN /\ reply' = Replied("process_incoming_bytes", c, FALSE,
                                    "CantProcessMessageFromSelf", sessions[c].epoch)
                /\ UNCHANGED sessions
           ELSE Processed(c, sessions[c], commit_sender_of(sessions[c], packets[k]),
                          apply_member_commit(sessions[c], strategy,
                                              commit_sender_of(sessions[c], packets[k]),
                                              packets[k].proposals))
        /\ UNCHANGED packets
        /\ UNCHANGED << vars, library_vars >>

\* Client::join_session: with the welcome packet of a commit and the tree
\* its committer exported after applying it
JoinSession ==
    \E c \in Clients, k \in 1..Len(packets) :
        \E d \in {d \in Clients : /\ sessions[d].status = "joined" /\ sessions[d].active
                                  /\ sessions[d].leaf_index = packets[k].sender
                                  /\ sessions[d].epoch = packets[k].epoch + 1} :
            LET tree == sessions[d].tree
                mine == {i \in non_empty_leaves(tree) : tree.leaves[i].sid = c}
            IN /\ sessions[c].status = "new"
               /\ c \in packets[k].welcome
               /\ mine # {}
               /\ sessions' = [sessions EXCEPT ![c] =
                      [status |-> "joined", active |-> TRUE, epoch |-> sessions[d].epoch,
                       tree |-> tree, leaf_index |-> Min(mine), pending |-> None]]
               /\ reply' = Replied("join_session", c, TRUE, "", sessions[d].epoch)
               /\ UNCHANGED packets
               /\ UNCHANGED << vars, library_vars >>

SessionNext ==
    \/ SessionCommit
    \/ ApplyPendingCommit
    \/ ProcessIncomingBytes
    \/ JoinSession

SessionSpec == SessionInit /\ [][SessionNext]_session_vars

(***************************************************************************)
(* The basic identity provider as a state machine: one call, one return    *)
(***************************************************************************)
IdentityInit ==
    /\ identity_call \in IdentityCalls
    /\ identity_result = None
    /\ ContentIdle
    /\ HarnessIdle
    /\ ApplierIdle
    /\ SessionsIdle

IdentityReturn(op, r) ==
    /\ identity_call.op = op
    /\ identity_result = None
    /\ identity_result' = Some(r)
    /\ UNCHANGED identity_call
    /\ UNCHANGED << vars, session_vars, content_vars, harness_vars >>

ValidateMember ==
    IdentityReturn("validate_member",
        BasicIdentityProvider_validate_member(Unwrap(identity_call.signing_identity),
                                              identity_call.timestamp,
                                              identity_call.extensions))

ValidateExternalSender ==
    IdentityReturn("validate_external_sender",
        BasicIdentityProvider_validate_external_sender(Unwrap(identity_call.signing_identity),
                                                       identity_call.timestamp,
                                                       identity_call.extensions))

Identity ==
    IdentityReturn("identity",
        BasicIdentityProvider_identity(Unwrap(identity_call.signing_identity)))

ValidSuccessor ==
    IdentityReturn("valid_successor",
        BasicIdentityProvider_valid_successor(Unwrap(identity_call.signing_identity),
                                              Unwrap(identity_call.successor)))

EnsureRemovalIsForSelf ==
    IdentityReturn("ensure_removal_is_for_self",
        ensure_removal_is_for_self_basic(identity_call.to_remove,
                                         Unwrap(identity_call.successor),
                                         identity_call.roster))

IdentityNext ==
    \/ ValidateMember
    \/ ValidateExternalSender
    \/ Identity
    \/ ValidSuccessor
    \/ EnsureRemovalIsForSelf

IdentitySpec == IdentityInit /\ [][IdentityNext]_identity_vars

(***************************************************************************)
(* Signed message content as a state machine: the value is built, written  *)
(* to bytes, and read back                                                 *)
(***************************************************************************)
ContentInit ==
    /\ tbs_call \in ContentCalls
    /\ tbs_value = None
    /\ tbs_bytes = None
    /\ tbs_back = None
    /\ IdentityIdle
    /\ HarnessIdle
    /\ ApplierIdle
    /\ SessionsIdle

ContentFrame == UNCHANGED << tbs_call, vars, session_vars, identity_vars, harness_vars >>

FromPlaintext ==
    /\ tbs_call.op = "from_plaintext"
    /\ tbs_value = None
    /\ tbs_value' = Some(MLSContentTBS_from_plaintext(Unwrap(tbs_call.plaintext),
                                                      tbs_call.group_context,
                                                      tbs_call.encrypted))
    /\ UNCHANGED << tbs_bytes, tbs_back >>
    /\ ContentFrame

\* the struct is written out field by field
StructLiteral ==
    /\ tbs_call.op = "literal"
    /\ tbs_value = None
    /\ tbs_value' = tbs_call.literal
    /\ UNCHANGED << tbs_bytes, tbs_back >>
    /\ ContentFrame

TlsSerialize ==
    /\ tbs_value # None
    /\ tbs_bytes = None
    /\ tbs_bytes' = Some(MLSContentTBS_tls_serialize(Unwrap(tbs_value)))
    /\ UNCHANGED << tbs_value, tbs_back >>
    /\ ContentFrame

TlsDeserialize ==
    /\ tbs_bytes # None
    /\ tbs_back = None
    /\ tbs_back' = Some(MLSContentTBS_tls_deserialize(Unwrap(tbs_bytes)))
    /\ UNCHANGED << tbs_value, tbs_bytes >>
    /\ ContentFrame

ContentNext ==
    \/ FromPlaintext
    \/ StructLiteral
    \/ TlsSerialize
    \/ TlsDeserialize

ContentSpec == ContentInit /\ [][ContentNext]_content_vars

(***************************************************************************)
(* The test harness as a state machine: the handlers of the RPCs in        *)
(* flight take their steps in any order                                    *)
(***************************************************************************)
HarnessInit ==
    /\ clients_mutex = Mutex_default
    /\ sessions_mutex = Mutex_default
    /\ rpcs \in [RpcIds -> Requests]
    /\ InRequestOrder(rpcs)
    /\ IdentityIdle
    /\ ContentIdle
    /\ ApplierIdle
    /\ SessionsIdle

HarnessFrame == UNCHANGED << vars, session_vars, identity_vars, content_vars >>

At(r, kinds, pc_now) == rpcs[r].kind \in kinds /\ rpcs[r].pc = pc_now

Goto(r, pc_next) == rpcs' = [rpcs EXCEPT ![r].pc = pc_next]

\* the handler returns or unwinds: its guards are dropped
Leave(r, reply_given) ==
    /\ rpcs' = [rpcs EXCEPT ![r].pc = "done", ![r].reply = reply_given]
    /\ clients_mutex' = MutexGuard_drop(clients_mutex, r, reply_given = Panicked)
    /\ sessions_mutex' = MutexGuard_drop(sessions_mutex, r, reply_given = Panicked)

\* create_group up to the lock: the session is created, or the call aborts
CreateGroup_create_session(r) ==
    /\ At(r, {"create_group"}, "create_session")
    /\ \/ Goto(r, "lock_sessions") /\ UNCHANGED << clients_mutex, sessions_mutex >>
       \/ Leave(r, Status_aborted)
    /\ HarnessFrame

\* self.clients.lock().unwrap(): waits for the lock, panics if it is poisoned
LockClients(r) ==
    /\ At(r, {"create_key_package", "join_group"}, "lock_clients")
    /\ clients_mutex.owner = 0
    /\ IF clients_mutex.poisoned
       THEN Leave(r, Panicked)
       ELSE /\ clients_mutex' = [clients_mutex EXCEPT !.owner = r]
            /\ Goto(r, IF rpcs[r].kind = "join_group" THEN "join_session" ELSE "push_client")
            /\ UNCHANGED sessions_mutex
    /\ HarnessFrame

\* create_key_package under the lock: the cipher suite is unwrapped, the key
\* package generated, the client pushed
CreateKeyPackage_push(r) ==
    /\ At(r, {"create_key_package"}, "push_client")
    /\ \/ Leave(r, Panicked)
       \/ Leave(r, Status_aborted)
       \/ /\ clients_mutex' = [clients_mutex EXCEPT !.data = Append(@, [made_by |-> r])]
          /\ Goto(r, "return_transaction_id")
          /\ UNCHANGED sessions_mutex
    /\ HarnessFrame

CreateKeyPackage_return(r) ==
    /\ At(r, {"create_key_package"}, "return_transaction_id")
    /\ Leave(r, Response(Len(clients_mutex.data)))
    /\ HarnessFrame

\* join_group under the clients lock: clients[transaction_id - 1] panics
\* out of range; join_session may fail
JoinGroup_join_session(r) ==
    /\ At(r, {"join_group"}, "join_session")
    /\ IF rpcs[r].arg - 1 \notin 0..(Len(clients_mutex.data) - 1)
       THEN Leave(r, Panicked)
       ELSE \/ Leave(r, Status_aborted)
            \/ Goto(r, "lock_sessions") /\ UNCHANGED << clients_mutex, sessions_mutex >>
    /\ HarnessFrame

\* self.sessions.lock().unwrap()
LockSessions(r) ==
    /\ At(r, {"create_group", "join_group", "protect"}, "lock_sessions")
    /\ sessions_mutex.owner = 0
    /\ IF sessions_mutex.poisoned
       THEN Leave(r, Panicked)
       ELSE /\ sessions_mutex' = [sessions_mutex EXCEPT !.owner = r]
            /\ Goto(r, IF rpcs[r].kind = "protect" THEN "get_mut" ELSE "push_session")
            /\ UNCHANGED clients_mutex
    /\ HarnessFrame

\* sessions.push(session)
PushSession(r) ==
    /\ At(r, {"create_group", "join_group"}, "push_session")
    /\ sessions_mutex' = [sessions_mutex EXCEPT !.data = Append(@, [made_by |-> r, used |-> 0])]
    /\ Goto(r, "return_state_id")
    /\ UNCHANGED clients_mutex
    /\ HarnessFrame

\* the response carries sessions.len(); the guards are dropped on return
ReturnStateId(r) ==
    /\ At(r, {"create_group", "join_group"}, "return_state_id")
    /\ Leave(r, Response(state_id_of(sessions_mutex.data)))
    /\ HarnessFrame

\* a handler that works on the session of a state id: state_id - 1 overflows
\* for 0 (a panic with overflow checks, no session without), get_mut gives
\* no session out of range, and the work on the session may fail
UseSession(r) ==
    /\ At(r, {"protect"}, "get_mut")
    /\ IF rpcs[r].arg = 0
       THEN Leave(r, Panicked) \/ Leave(r, Status_aborted)
       ELSE IF rpcs[r].arg > Len(sessions_mutex.data)
       THEN Leave(r, Status_aborted)
       ELSE \/ Leave(r, Status_aborted)
            \/ /\ rpcs' = [rpcs EXCEPT ![r].pc = "done", ![r].reply = Response(0)]
               /\ sessions_mutex' = [sessions_mutex EXCEPT !.owner = 0,
                                                           !.data[rpcs[r].arg].used = r]
               /\ UNCHANGED clients_mutex
    /\ HarnessFrame

HarnessNext ==
    \/ \E r \in RpcIds : CreateGroup_create_session(r)
    \/ \E r \in RpcIds : LockClients(r)
    \/ \E r \in RpcIds : CreateKeyPackage_push(r)
    \/ \E r \in RpcIds : CreateKeyPackage_return(r)
    \/ \E r \in RpcIds : JoinGroup_join_session(r)
    \/ \E r \in RpcIds : LockSessions(r)
    \/ \E r \in RpcIds : PushSession(r)
    \/ \E r \in RpcIds : ReturnStateId(r)
    \/ \E r \in RpcIds : UseSession(r)

HarnessSpec == HarnessInit /\ [][HarnessNext]_harness_vars

(***************************************************************************)
(* What the caller sees                                                    *)
(***************************************************************************)
Returned == pc = "done"

Accepted == pc = "done" /\ result.kind = "Ok"

Rejected == pc = "done" /\ result.kind = "Err"

\* the returned ProposalState, with its tree
ReturnedState == Loaded(Unwrap(result.state))

\* the bundle the call holds at this point of the pipeline
CurrentBundle ==
    IF local_state # None THEN Unwrap(local_state).proposals
    ELSE IF result.kind = "Ok" THEN Unwrap(result.state).proposals
    ELSE local_proposals

RECURSIVE IsSubSeq(_, _)
IsSubSeq(s, t) ==
    IF s = << >> THEN TRUE
    ELSE IF t = << >> THEN FALSE
    ELSE IF Head(s) = Head(t) THEN IsSubSeq(Tail(s), Tail(t))
    ELSE IsSubSeq(s, Tail(t))

ByValue(bundle) == SubSeqAt(bundle, {k \in 1..Len(bundle) : ~bundle[k].by_ref})

AllByRef(bundle) == \A k \in 1..Len(bundle) : bundle[k].by_ref

UniqueLeaves(tree) ==
    \A i, j \in non_empty_leaves(tree) :
        i # j => /\ tree.leaves[i].sid # tree.leaves[j].sid
                 /\ tree.leaves[i].hpke # tree.leaves[j].hpke

(***************************************************************************)
(* Properties                                                              *)
(***************************************************************************)

\* C1: whatever the call does, the applier's original tree is the tree it
\* was when the call started, and a call that returns an error returns no
\* ProposalState: no edited tree and no filtered bundle is left to the caller.
C1_NoPartialApplication ==
    /\ trees.original = args.tree_at_call
    /\ Rejected => /\ result.state = None
                   /\ local_state = None
                   /\ local_proposals = << >>
                   /\ trees.working = NoTree

\* a valid Update was applied to the working tree before the Add of a
\* duplicate identity aborted the batch
C1_Witness ==
    /\ Rejected
    /\ result.at = "apply_proposal_changes"
    /\ result.err = TreeError("DuplicateLeafData")
    /\ args.strategy = "FailInvalidProposal"
    /\ args.proposals = << UpdateProposal(Member(1), TRUE, Leaf(1, 21, {"X"}, {"P"}, "Update")),
                           AddProposal(Member(0), FALSE, Leaf(1, 16, {"X"}, {"P"}, "KeyPackage")) >>

\* C2: under FailInvalidProposal no proposal is ever dropped: at every point
\* of the pipeline the bundle is the input bundle, so an accepted batch
\* returns exactly the proposals it was given.
C2_FailStrategyKeepsEveryProposal ==
    (args.strategy = "FailInvalidProposal" /\ ~Rejected) => CurrentBundle = args.proposals

C2_Witness ==
    /\ Accepted
    /\ args.strategy = "FailInvalidProposal"
    /\ FromMember
    /\ Len(args.proposals) = 2
    /\ AllByRef(args.proposals)
    /\ ReturnedState.tree # args.tree_at_call

\* C3: under IgnoreInvalidByRefProposal the by-value proposals of an accepted
\* batch are exactly the by-value proposals of the input, in order, and the
\* survivors are a sub-sequence of the input: only by-reference proposals
\* are missing.
C3_ByValueNeverDropped ==
    (args.strategy = "IgnoreInvalidByRefProposal" /\ Accepted) =>
        /\ ByValue(ReturnedState.proposals) = ByValue(args.proposals)
        /\ IsSubSeq(ReturnedState.proposals, args.proposals)

C3_Witness ==
    /\ Accepted
    /\ args.strategy = "IgnoreInvalidByRefProposal"
    /\ Len(ReturnedState.proposals) = 1
    /\ Len(args.proposals) = 2
    /\ ~args.proposals[1].by_ref
    /\ ReturnedState.proposals[1] = args.proposals[1]

\* C4: under IgnoreInvalidByRefProposal a member's commit of by-reference
\* proposals only is never rejected.
C4_ByRefOnlyNeverFails ==
    (args.strategy = "IgnoreInvalidByRefProposal" /\ FromMember /\ AllByRef(args.proposals))
        => result.kind # "Err"

\* the batch tree edit reported the Remove of a blank leaf, which was dropped
C4_Witness ==
    /\ Accepted
    /\ args.strategy = "IgnoreInvalidByRefProposal"
    /\ FromMember
    /\ AllByRef(args.proposals)
    /\ \E k \in 1..Len(args.proposals) :
           /\ args.proposals[k].type = "REMOVE"
           /\ args.proposals[k].to_remove = 2
    /\ \A k \in 1..Len(ReturnedState.proposals) : ReturnedState.proposals[k].type # "REMOVE"

\* C5: committer survival: in every batch a member commits and the applier
\* accepts, the committer's leaf is in the resulting tree and is the leaf
\* the original tree held; no surviving Update is the committer's own and no
\* surviving Remove targets the committer.
C5_CommitterSurvival ==
    (Accepted /\ FromMember) =>
        LET c == args.commit_sender.idx
            st == ReturnedState
        IN /\ c \in non_empty_leaves(st.tree)
           /\ st.tree.leaves[c] = args.tree_at_call.leaves[c]
           /\ \A k \in 1..Len(st.proposals) :
                  /\ ~(st.proposals[k].type = "UPDATE" /\ st.proposals[k].sender = args.commit_sender)
                  /\ ~(st.proposals[k].type = "REMOVE"
                       /\ st.proposals[k].to_remove = args.commit_sender.idx)

\* a by-reference Remove of the committer was dropped and the rest of the
\* batch changed the tree
C5_Witness ==
    /\ Accepted
    /\ FromMember
    /\ \E k \in 1..Len(args.proposals) :
           /\ args.proposals[k].type = "REMOVE"
           /\ args.proposals[k].to_remove = args.commit_sender.idx
    /\ ReturnedState.tree # args.tree_at_call

LeafOfSid1 == Leaf(1, 16, {"X"}, {"P"}, "KeyPackage")

LeafOfHpke11 == Leaf(3, 11, {"X"}, {"P"}, "Update")

JoinerOfSid1 == Leaf(1, 31, {"X"}, {"P"}, "Commit")

\* batches whose new leaf collides only with the leaf at slot 1, which the
\* same batch removes
RemoveAndReplace ==
    {<< RemoveProposal(Member(0), FALSE, 1), AddProposal(Member(0), FALSE, LeafOfSid1) >>,
     << AddProposal(Member(0), FALSE, LeafOfSid1), RemoveProposal(Member(0), FALSE, 1) >>,
     << UpdateProposal(Member(3), TRUE, LeafOfHpke11), RemoveProposal(Member(3), TRUE, 1) >>,
     << RemoveProposal(Member(3), TRUE, 1), UpdateProposal(Member(3), TRUE, LeafOfHpke11) >>}

\* C6: leaf uniqueness: the non-blank leaves of the tree of an accepted batch
\* have pairwise distinct signing identities and HPKE keys (updated, added
\* and joiner leaves included), and a new leaf that collides only with a
\* leaf the same batch removes is accepted.
C6_LeafUniqueness ==
    /\ (Accepted /\ UniqueLeaves(args.tree_at_call)) => UniqueLeaves(ReturnedState.tree)
    /\ (Returned /\ args.commit_sender = Member(0) /\ args.proposals \in RemoveAndReplace)
           => Accepted
    /\ (Returned /\ args.commit_sender = NewMemberCommit
        /\ self.external_leaf = Some(JoinerOfSid1)
        /\ args.proposals = << ExternalInit(NewMemberCommit, FALSE),
                               RemoveProposal(NewMemberCommit, FALSE, 1) >>)
           => Accepted

\* the added leaf carries the signing identity of the leaf removed from slot 1
C6_Witness ==
    /\ Accepted
    /\ args.proposals = << AddProposal(Member(0), FALSE, LeafOfSid1),
                           RemoveProposal(Member(0), FALSE, 1) >>
    /\ ReturnedState.tree.leaves[1] = LeafOfSid1
    /\ args.tree_at_call.leaves[1].sid = LeafOfSid1.sid

\* leaf indexes of the surviving Updates, in bundle order
UpdatedIndexes(state) ==
    LET u == by_type(state.proposals, "UPDATE") IN [k \in 1..Len(u) |-> u[k].sender.idx]

RemovedIndexes(state) == [k \in 1..Len(state.removed_leaves) |-> state.removed_leaves[k].index]

NoDuplicates(s) == \A i, j \in 1..Len(s) : i # j => s[i] # s[j]

Disjoint(s, t) == \A i \in 1..Len(s), j \in 1..Len(t) : s[i] # t[j]

\* C7 as stated: added_indexes, the leaf indexes of the surviving Updates
\* and the indexes of removed_leaves together contain no index twice.
C7_Original ==
    Accepted =>
        NoDuplicates(ReturnedState.added_indexes \o UpdatedIndexes(ReturnedState)
                     \o RemovedIndexes(ReturnedState))

\* C7 amended: no index occurs twice among the surviving Updates and
\* removed_leaves together, none twice in added_indexes, and no added index
\* is an updated index; an added index may be a removed index, the Add
\* having reused the slot that a Remove of the same batch freed.
C7_Amended ==
    Accepted =>
        /\ NoDuplicates(UpdatedIndexes(ReturnedState) \o RemovedIndexes(ReturnedState))
        /\ NoDuplicates(ReturnedState.added_indexes)
        /\ Disjoint(ReturnedState.added_indexes, UpdatedIndexes(ReturnedState))

\* an Add took the slot the Remove of the same batch had freed
C7_Witness ==
    /\ Accepted
    /\ ReturnedState.added_indexes = << 1 >>
    /\ RemovedIndexes(ReturnedState) = << 1 >>

\* C8: capability consistency: when a group-context-extensions proposal
\* survives an accepted batch, every non-blank leaf of the resulting tree
\* lists every non-default extension type of the proposal and meets the
\* required capabilities the proposal carries.
C8_CapabilityConsistency ==
    Accepted =>
        \A k \in PositionsOf(ReturnedState.proposals, "GROUP_CONTEXT_EXTENSIONS") :
            LET ext == ReturnedState.proposals[k].ext
                tree == ReturnedState.tree
            IN \A i \in non_empty_leaves(tree) :
                   /\ \A t \in ext.types : ~is_default(t) => t \in tree.leaves[i].exts
                   /\ get_as_required_capabilities(ext).ok
                   /\ \A rc \in get_as_required_capabilities(ext).val :
                          /\ rc.exts \subseteq tree.leaves[i].exts
                          /\ rc.props \subseteq tree.leaves[i].props

\* the proposal survives next to an Add whose leaf supports it
C8_Witness ==
    /\ Accepted
    /\ \E k \in PositionsOf(ReturnedState.proposals, "GROUP_CONTEXT_EXTENSIONS") :
           /\ "X" \in ReturnedState.proposals[k].ext.types
           /\ ReturnedState.proposals[k].ext.req # None
    /\ Len(ReturnedState.added_indexes) = 1

\* the proposer authorization table: (sender kind, proposal type, by-reference)
AuthorizationTable ==
    ({"Member"} \X {"ADD", "REMOVE", "PSK", "RE_INIT", "GROUP_CONTEXT_EXTENSIONS"} \X BOOLEAN)
    \cup {<< "Member", "UPDATE", TRUE >>}
    \cup ({"External"} \X {"ADD", "REMOVE", "RE_INIT"} \X {TRUE})
    \cup ({"NewMemberCommit"} \X {"REMOVE", "PSK", "EXTERNAL_INIT"} \X {FALSE})
    \cup {<< "NewMemberProposal", "ADD", TRUE >>}

TableTypes == {ValidatedTypes[j] : j \in 1..Len(ValidatedTypes)}

StepsBeforeProposerCheck ==
    {"apply_proposals", "external_leaf", "ensure_exactly_one_external_init",
     "ensure_at_most_one_removal_for_self", "ensure_proposals_in_external_commit_are_allowed",
     "ensure_no_proposal_by_ref", "filter_out_invalid_proposers"}

\* C9: proposer_can_propose is the authorization table; a batch rejected for
\* a disallowed combination gets InvalidProposalTypeForSender with the type,
\* sender and by-reference flag of a proposal of the batch, and no proposal
\* of a disallowed combination is left once the proposers were checked.
C9_ProposerAuthorization ==
    /\ \A kind \in SenderKinds, T \in TableTypes, by_ref \in BOOLEAN, i \in 0..1 :
           proposer_can_propose([kind |-> kind, idx |-> i], T, by_ref)
               <=> << kind, T, by_ref >> \in AuthorizationTable
    /\ (Rejected /\ result.at = "filter_out_invalid_proposers"
        /\ result.err.name = "InvalidProposalTypeForSender") =>
           /\ << result.err.sender.kind, result.err.ptype, result.err.by_ref >>
                  \notin AuthorizationTable
           /\ \E k \in 1..Len(args.proposals) :
                  /\ args.proposals[k].type = result.err.ptype
                  /\ args.proposals[k].sender = result.err.sender
                  /\ args.proposals[k].by_ref = result.err.by_ref
    /\ (pc \notin StepsBeforeProposerCheck) =>
           \A k \in 1..Len(CurrentBundle) :
               CurrentBundle[k].type \in TableTypes =>
                   << CurrentBundle[k].sender.kind, CurrentBundle[k].type,
                      CurrentBundle[k].by_ref >> \in AuthorizationTable

\* a by-value Update aborted the batch
C9_Witness ==
    /\ Rejected
    /\ result.at = "filter_out_invalid_proposers"
    /\ result.err = InvalidProposalTypeForSender("UPDATE", Member(1), FALSE)

\* C10: a commit from an External or NewMemberProposal sender is rejected
\* with ExternalSenderCannotCommit by apply_proposals itself: no rule runs
\* and no tree is cloned or edited.
C10_ExternalSenderCannotCommit ==
    args.commit_sender.kind \in {"External", "NewMemberProposal"} =>
        /\ pc \in {"apply_proposals", "done"}
        /\ trees = [original |-> args.tree_at_call, working |-> NoTree]
        /\ Returned => /\ result.kind = "Err"
                       /\ result.err = Error("ExternalSenderCannotCommit")
                       /\ result.at = "apply_proposals"

\* the empty bundle of a NewMemberProposal sender was rejected
C10_Witness ==
    /\ Rejected
    /\ args.commit_sender = NewMemberProposal
    /\ args.proposals = << >>
    /\ result.err = Error("ExternalSenderCannotCommit")

FromNewMember == args.commit_sender = NewMemberCommit

CountOf(bundle, T) == Cardinality(PositionsOf(bundle, T))

ExternalCommitTypes == {"EXTERNAL_INIT", "REMOVE", "PSK"}

\* the leaf the only Remove of the bundle targets is in the tree at the call
RemovedLeafPresent(bundle) ==
    get_leaf_node(args.tree_at_call, by_type(bundle, "REMOVE")[1].to_remove).ok

\* the identity provider's verdict on the leaf the only Remove targets as a
\* predecessor of the joining leaf
RemovedIsPredecessor(bundle) ==
    IdentityProvider_valid_successor(
        args.tree_at_call.leaves[by_type(bundle, "REMOVE")[1].to_remove].sid,
        Unwrap(self.external_leaf).sid)

\* C11: a batch accepted from a NewMemberCommit sender came with an external
\* leaf, holds exactly one ExternalInit, at most one Remove (of a leaf that
\* is a valid predecessor of the joiner), no by-reference proposal and only
\* ExternalInit, Remove and PSK proposals; the first of these conditions
\* that fails, in the order the applier checks them, decides the error:
\* ExternalCommitMustHaveNewLeaf, ExternalCommitMustHaveExactlyOneExternalInit,
\* ExternalCommitWithMoreThanOneRemove or ExternalCommitRemovesOtherIdentity,
\* InvalidProposalTypeInExternalCommit, OnlyMembersCanCommitProposalsByRef.
C11_ExternalCommitShape ==
    LET b == args.proposals
        has_leaf == self.external_leaf # None
        one_init == CountOf(b, "EXTERNAL_INIT") = 1
        removes == CountOf(b, "REMOVE")
        for_self == removes = 1 => /\ RemovedLeafPresent(b)
                                   /\ RemovedIsPredecessor(b).ok
                                   /\ RemovedIsPredecessor(b).val
        other_identity == /\ removes = 1
                          /\ RemovedLeafPresent(b)
                          /\ RemovedIsPredecessor(b).ok
                          /\ ~RemovedIsPredecessor(b).val
        allowed == proposal_types(b) \subseteq ExternalCommitTypes
        by_value == ~\E k \in 1..Len(b) : b[k].by_ref
    IN FromNewMember =>
        /\ Accepted => /\ has_leaf /\ one_init /\ removes <= 1 /\ for_self
                       /\ allowed /\ by_value
        /\ Returned =>
            /\ ~has_leaf => result.err = Error("ExternalCommitMustHaveNewLeaf")
            /\ (has_leaf /\ ~one_init)
                   => result.err = Error("ExternalCommitMustHaveExactlyOneExternalInit")
            /\ (has_leaf /\ one_init /\ removes > 1)
                   => result.err = Error("ExternalCommitWithMoreThanOneRemove")
            /\ (has_leaf /\ one_init /\ other_identity)
                   => result.err = Error("ExternalCommitRemovesOtherIdentity")
            /\ (has_leaf /\ one_init /\ removes <= 1 /\ for_self /\ ~allowed)
                   => /\ result.err.name = "InvalidProposalTypeInExternalCommit"
                      /\ result.err.ptype \in proposal_types(b) \ ExternalCommitTypes
            /\ (has_leaf /\ one_init /\ removes <= 1 /\ for_self /\ allowed /\ ~by_value)
                   => result.err = Error("OnlyMembersCanCommitProposalsByRef")
        /\ Rejected =>
            /\ result.err.name = "ExternalCommitMustHaveNewLeaf" => ~has_leaf
            /\ result.err.name = "ExternalCommitMustHaveExactlyOneExternalInit" => ~one_init
            /\ result.err.name = "ExternalCommitWithMoreThanOneRemove" => removes > 1
            /\ result.err.name = "ExternalCommitRemovesOtherIdentity" => other_identity
            /\ result.err.name = "InvalidProposalTypeInExternalCommit" => ~allowed
            /\ result.err.name = "OnlyMembersCanCommitProposalsByRef" => ~by_value

\* an external commit of one ExternalInit and two Removes was rejected
C11_Witness ==
    /\ Rejected
    /\ FromNewMember
    /\ result.at = "ensure_at_most_one_removal_for_self"
    /\ result.err = Error("ExternalCommitWithMoreThanOneRemove")
    /\ CountOf(args.proposals, "EXTERNAL_INIT") = 1
    /\ CountOf(args.proposals, "REMOVE") = 2

\* the leaf index the only Remove of the call's bundle targets
RemovedByJoiner == by_type(args.proposals, "REMOVE")[1].to_remove

BlankSlots(tree) == {i \in DOMAIN tree.leaves : tree.leaves[i].blank}

\* C12 as stated: in an accepted external commit with one Remove the joiner
\* takes the slot of the removed leaf.
C12_Original ==
    (Accepted /\ FromNewMember /\ CountOf(args.proposals, "REMOVE") = 1) =>
        ReturnedState.external_leaf_index = Some(RemovedByJoiner)

\* C12 amended: in an accepted external commit with one Remove the removed
\* leaf is recorded and its slot blanked, and the joiner takes the leftmost
\* slot that is blank after the removal: the slot of the removed leaf when
\* no slot to its left was blank, a blank slot further left otherwise, the
\* slot of the removed leaf then staying blank.
C12_Amended ==
    (Accepted /\ FromNewMember /\ CountOf(args.proposals, "REMOVE") = 1) =>
        LET r == RemovedByJoiner
            st == ReturnedState
            slot == Min(BlankSlots(args.tree_at_call) \cup {r})
        IN /\ st.removed_leaves = << [index |-> r, leaf |-> args.tree_at_call.leaves[r]] >>
           /\ st.external_leaf_index = Some(slot)
           /\ st.tree.leaves[slot] = Unwrap(self.external_leaf)
           /\ slot # r => st.tree.leaves[r].blank
           /\ (\A i \in BlankSlots(args.tree_at_call) : i > r) => slot = r

\* the joiner took the slot of the leaf it removed, left of a blank slot
C12_Witness ==
    /\ Accepted
    /\ FromNewMember
    /\ CountOf(args.proposals, "REMOVE") = 1
    /\ RemovedByJoiner = 1
    /\ ReturnedState.external_leaf_index = Some(1)
    /\ 2 \in BlankSlots(ReturnedState.tree)

\* C13: the ProposalState an accepted call returns has external_leaf_index
\* set exactly when the commit sender is NewMemberCommit; the tree then
\* holds the supplied external leaf at that index, and added_indexes does
\* not list it.
C13_ExternalLeafIndex ==
    Accepted =>
        LET st == ReturnedState
        IN /\ st.external_leaf_index # None <=> FromNewMember
           /\ \A i \in st.external_leaf_index :
                  /\ i \in DOMAIN st.tree.leaves
                  /\ st.tree.leaves[i] = Unwrap(self.external_leaf)
                  /\ \A k \in 1..Len(st.added_indexes) : st.added_indexes[k] # i

\* the joiner of a full tree got the first slot of the extended tree
C13_Witness ==
    /\ Accepted
    /\ FromNewMember
    /\ LeafCount(args.tree_at_call) = 2
    /\ ReturnedState.external_leaf_index = Some(2)
    /\ ReturnedState.tree.leaves[2] = Unwrap(self.external_leaf)

\* a by-value bundle of one ReInit and one Add, in either order, that the
\* rules before the ReInit rules let through: its senders are members of
\* the tree and the ReInit does not lower the protocol version
ReInitAndAdd(bundle) ==
    /\ Len(bundle) = 2
    /\ CountOf(bundle, "RE_INIT") = 1
    /\ CountOf(bundle, "ADD") = 1
    /\ \A k \in 1..2 : /\ ~bundle[k].by_ref
                       /\ bundle[k].sender.kind = "Member"
                       /\ get_leaf_node(args.tree_at_call, bundle[k].sender.idx).ok
    /\ by_type(bundle, "RE_INIT")[1].version >= self.protocol_version

\* C14: ReInit exclusivity: a ReInit that survives a batch accepted from a
\* member is the only proposal of the surviving bundle, and a by-value batch
\* of one ReInit and one Add is rejected with OtherProposalWithReInit.
C14_ReInitExclusivity ==
    FromMember =>
        /\ (Accepted /\ CountOf(ReturnedState.proposals, "RE_INIT") > 0)
               => Len(ReturnedState.proposals) = 1
        /\ (Returned /\ ReInitAndAdd(args.proposals))
               => /\ Rejected
                  /\ result.err = Error("OtherProposalWithReInit")
                  /\ result.at = "filter_out_reinit_if_other_proposals"

\* a ReInit and an Add, both by value, were rejected
C14_Witness ==
    /\ Rejected
    /\ FromMember
    /\ ReInitAndAdd(args.proposals)
    /\ args.proposals[1].type = "ADD"
    /\ result.err = Error("OtherProposalWithReInit")

\* positions of the Updates of a bundle whose sender is the committer
SelfUpdates(bundle) ==
    {k \in PositionsOf(bundle, "UPDATE") : bundle[k].sender = args.commit_sender}

\* C15 as stated: Member 0 commits, under FailInvalidProposal, one by-value
\* Update whose sender is Member(0): the call fails with InvalidCommitSelfUpdate.
C15_Original ==
    (/\ Returned
     /\ args.commit_sender = Member(0)
     /\ args.strategy = "FailInvalidProposal"
     /\ Len(args.proposals) = 1
     /\ SelfUpdates(args.proposals) = {1}
     /\ ~args.proposals[1].by_ref)
        => /\ Rejected
           /\ result.err.name = "InvalidCommitSelfUpdate"

\* the self-update rule, one step of a member commit
C15_Step ==
    pc = "filter_out_update_for_committer" =>
        LET selfs == SelfUpdates(local_proposals)
        IN /\ \A k \in selfs : local_proposals[k].by_ref
           /\ IF selfs = {}
              THEN pc' # "done" /\ local_proposals' = local_proposals
              ELSE IF args.strategy = "FailInvalidProposal"
              THEN /\ pc' = "done"
                   /\ result'.kind = "Err"
                   /\ result'.err = Error("InvalidCommitSelfUpdate")
              ELSE /\ pc' # "done"
                   /\ local_proposals' = SubSeqAt(local_proposals,
                                                  (1..Len(local_proposals)) \ selfs)

\* what the caller sees of a member's batch that holds a by-value Update of
\* the committer, and where InvalidCommitSelfUpdate can come from
C15_Return ==
    (pc' = "done" /\ FromMember) =>
        /\ (\E k \in SelfUpdates(args.proposals) : ~args.proposals[k].by_ref)
               => /\ result'.kind = "Err"
                  /\ result'.at = "filter_out_invalid_proposers"
                  /\ result'.err.name # "InvalidCommitSelfUpdate"
                  /\ Len(args.proposals) = 1
                         => result'.err = InvalidProposalTypeForSender("UPDATE", args.commit_sender, FALSE)
        /\ result'.err.name = "InvalidCommitSelfUpdate"
               => /\ args.strategy = "FailInvalidProposal"
                  /\ result'.at = "filter_out_update_for_committer"
                  /\ \E k \in SelfUpdates(args.proposals) : args.proposals[k].by_ref
        /\ result'.kind = "Ok"
               => SelfUpdates(Unwrap(result'.state).proposals) = {}

\* C15 (amended): a by-value Update whose sender is the committing member
\* aborts the batch under either strategy, at the proposer check and with
\* InvalidProposalTypeForSender, so that only by-reference Updates of the
\* committer reach the self-update rule; there FailInvalidProposal fails with
\* InvalidCommitSelfUpdate and IgnoreInvalidByRefProposal drops them silently.
C15_Amended == [][C15_Step /\ C15_Return]_vars

\* a by-value Update of the committer was turned away by the proposer check
C15_Witness ==
    /\ Rejected
    /\ args.commit_sender = Member(0)
    /\ args.strategy = "FailInvalidProposal"
    /\ args.proposals = << UpdateProposal(Member(0), FALSE, Leaf(0, 24, {"X"}, {"P"}, "Update")) >>
    /\ result.err = InvalidProposalTypeForSender("UPDATE", Member(0), FALSE)

\* positions of the Removes that target a leaf an earlier Remove targets
LaterRemoves(bundle) ==
    {k \in PositionsOf(bundle, "REMOVE") :
        \E j \in PositionsOf(bundle, "REMOVE") : j < k /\ bundle[j].to_remove = bundle[k].to_remove}

\* positions of the Updates of a Member that sends a later Update as well
EarlierUpdates(bundle) ==
    {k \in PositionsOf(bundle, "UPDATE") :
        /\ bundle[k].sender.kind = "Member"
        /\ \E j \in PositionsOf(bundle, "UPDATE") : j > k /\ bundle[j].sender = bundle[k].sender}

\* positions of the last Updates of Members whose leaf a Remove targets
UpdatesOfRemoved(bundle) ==
    {k \in PositionsOf(bundle, "UPDATE") \ EarlierUpdates(bundle) :
        /\ bundle[k].sender.kind = "Member"
        /\ \E j \in PositionsOf(bundle, "REMOVE") : bundle[j].to_remove = bundle[k].sender.idx}

\* the positions among K whose failure the strategy does not ignore
NotIgnored(bundle, K) == {k \in K : ~ignore(StrategyInUse, bundle[k])}

\* the one-proposal-per-leaf rule, one step of a member commit
C16_Step ==
    pc = "filter_out_extra_removal_or_update_for_same_leaf" =>
        LET b == local_proposals
            removes == NotIgnored(b, LaterRemoves(b))
            updates == NotIgnored(b, EarlierUpdates(b) \cup UpdatesOfRemoved(b))
            failing == LaterRemoves(b) \cup EarlierUpdates(b) \cup UpdatesOfRemoved(b)
        IN IF removes # {}
           THEN /\ pc' = "done"
                /\ result'.kind = "Err"
                /\ result'.err = ErrorN("MoreThanOneProposalForLeaf", b[Min(removes)].to_remove)
           ELSE IF updates # {}
           THEN /\ pc' = "done"
                /\ result'.kind = "Err"
                /\ result'.err = ErrorN("MoreThanOneProposalForLeaf", b[Min(updates)].sender.idx)
           ELSE /\ pc' # "done"
                /\ local_proposals' = SubSeqAt(b, (1..Len(b)) \ failing)

\* C16: one proposal per leaf: of the Removes that target the same leaf only
\* the first in bundle order passes, of the Updates sent by the same Member
\* only the last one passes (and only if no Remove targets its leaf); every
\* other one fails with MoreThanOneProposalForLeaf(leaf), which aborts the
\* batch unless the strategy ignores the proposal, and then it is dropped.
C16_OneProposalPerLeaf == [][C16_Step]_vars

\* of two Updates of Member(1), taken by reference, the last one was kept
C16_Witness ==
    /\ pc = "filter_out_invalid_psks"
    /\ FromMember
    /\ Len(args.proposals) = 2
    /\ EarlierUpdates(args.proposals) = {1}
    /\ local_proposals = << args.proposals[2] >>

\* the key types a PSK proposal may carry
ValidPskTypes == {"External", "ResumptionApplication"}

\* positions of the PSK proposals of valid key type whose nonce has not the
\* cipher suite's kdf_extract_size
WrongNonce(bundle) ==
    {k \in PositionsOf(bundle, "PSK") :
        /\ bundle[k].psk.key_type \in ValidPskTypes
        /\ Len(bundle[k].psk.nonce) # kdf_extract_size}

\* the PSK proposal at position k passes every check of the PSK rule
PskPasses(bundle, k) ==
    /\ bundle[k].psk.key_type \in ValidPskTypes
    /\ Len(bundle[k].psk.nonce) = kdf_extract_size
    /\ \A j \in PositionsOf(bundle, "PSK") : j < k => bundle[j].psk # bundle[k].psk
    /\ bundle[k].psk.key_type = "External" => bundle[k].psk.id \in KnownExternalPskIds

\* the PSK rule, one step of a commit, seen from a PSK with a wrong nonce
C17_Step ==
    pc = "filter_out_invalid_psks" =>
        LET b == local_proposals
            psks == PositionsOf(b, "PSK")
            quiet(j) == PskPasses(b, j) \/ ignore(StrategyInUse, b[j])
        IN /\ \A k \in WrongNonce(b) :
                 IF ignore(StrategyInUse, b[k])
                 THEN pc' # "done" => \A j \in 1..Len(local_proposals') : local_proposals'[j] # b[k]
                 ELSE /\ pc' = "done"
                      /\ result'.kind = "Err"
                      /\ (\A j \in psks : j < k => quiet(j))
                             => result'.err = [Error("InvalidPskNonceLength") EXCEPT
                                                  !.n = kdf_extract_size,
                                                  !.m = Len(b[k].psk.nonce)]
           /\ (\A j \in psks : quiet(j))
                  => /\ pc' # "done"
                     /\ local_proposals' = SubSeqAt(b, {j \in 1..Len(b) : j \in psks => PskPasses(b, j)})

\* C17: PSK nonce length: a PSK proposal of valid key type whose nonce length
\* differs from kdf_extract_size aborts the batch, with InvalidPskNonceLength
\* carrying kdf_extract_size and the nonce length when no earlier PSK proposal
\* aborted it, unless the proposal is by reference and the strategy is
\* IgnoreInvalidByRefProposal: then it is dropped silently, and the PSK rule
\* passes the remaining bundle on when no other PSK proposal aborts it.
C17_PskNonceLength == [][C17_Step]_vars

\* a by-value PSK proposal with a nonce of length 1 was turned away
C17_Witness ==
    /\ Rejected
    /\ result.at = "filter_out_invalid_psks"
    /\ WrongNonce(args.proposals) # {}
    /\ result.err = [Error("InvalidPskNonceLength") EXCEPT !.n = kdf_extract_size, !.m = 1]

\* the key id of a PSK proposal: its key type and id, without the nonce
KeyIdOf(p) == << p.psk.key_type, p.psk.id >>

\* C18: PSK key id uniqueness: in every accepted batch the key ids of the
\* surviving PSK proposals are pairwise distinct, whatever their nonces.
C18_PskKeyIdsDistinct ==
    Accepted =>
        LET kept == ReturnedState.proposals
        IN \A i, j \in PositionsOf(kept, "PSK") :
               i # j => KeyIdOf(kept[i]) # KeyIdOf(kept[j])

\* positions of the group-context-extensions proposals after the first one
LaterGroupContextExtensions(bundle) ==
    {k \in PositionsOf(bundle, "GROUP_CONTEXT_EXTENSIONS") :
        \E j \in PositionsOf(bundle, "GROUP_CONTEXT_EXTENSIONS") : j < k}

\* the rule on extra group-context-extensions proposals, one step of a member
\* commit, run on what the external-senders check let through
C19_Step ==
    pc = "filter_out_extra_group_context_extensions" =>
        LET b == local_proposals
            later == LaterGroupContextExtensions(b)
        IN IF NotIgnored(b, later) # {}
           THEN /\ pc' = "done"
                /\ result'.kind = "Err"
                /\ result'.err = Error("MoreThanOneGroupContextExtensionsProposal")
           ELSE /\ pc' # "done"
                /\ local_proposals' = SubSeqAt(b, (1..Len(b)) \ later)

\* what the caller of an accepted member commit holds
C19_Return ==
    (pc' = "done" /\ FromMember /\ result'.kind = "Ok")
        => CountOf(Unwrap(result'.state).proposals, "GROUP_CONTEXT_EXTENSIONS") <= 1

\* C19: a batch accepted from a Member commit holds at most one
\* group-context-extensions proposal: of those that pass the external-senders
\* check only the first in bundle order is kept, each later one fails with
\* MoreThanOneGroupContextExtensionsProposal (and is dropped when the
\* strategy ignores it).
C19_AtMostOneGroupContextExtensions == [][C19_Step /\ C19_Return]_vars

\* of two group-context-extensions proposals the first one was kept
C19_Witness ==
    /\ pc = "filter_out_invalid_reinit"
    /\ FromMember
    /\ PositionsOf(args.proposals, "GROUP_CONTEXT_EXTENSIONS") = {1, 2}
    /\ args.proposals[1] # args.proposals[2]
    /\ local_proposals = << args.proposals[1] >>

\* positions of the ReInit proposals that lower the protocol version
LoweringReInits(bundle) ==
    {k \in PositionsOf(bundle, "RE_INIT") : bundle[k].version < self.protocol_version}

\* the ReInit validity rule, one step of a member commit
C20_Step ==
    pc = "filter_out_invalid_reinit" =>
        LET b == local_proposals
            low == LoweringReInits(b)
            fatal == NotIgnored(b, low)
        IN IF fatal # {}
           THEN /\ pc' = "done"
                /\ result'.kind = "Err"
                /\ result'.err = [Error("InvalidProtocolVersionInReInit") EXCEPT
                                     !.n = b[Min(fatal)].version,
                                     !.m = self.protocol_version]
           ELSE /\ pc' # "done"
                /\ local_proposals' = SubSeqAt(b, (1..Len(b)) \ low)

\* what the caller of an accepted commit holds
C20_Return ==
    (pc' = "done" /\ result'.kind = "Ok")
        => LoweringReInits(Unwrap(result'.state).proposals) = {}

\* C20: ReInit validity: a ReInit passes only if the version it proposes is
\* at least the group's protocol version; otherwise it fails with
\* InvalidProtocolVersionInReInit carrying the proposed and the original
\* version (and is dropped when the strategy ignores it), so that no ReInit
\* of an accepted batch proposes a lower version.
C20_ReInitValidity == [][C20_Step /\ C20_Return]_vars

\* a ReInit to a lower version was turned away
C20_Witness ==
    /\ Rejected
    /\ result.at = "filter_out_invalid_reinit"
    /\ LoweringReInits(args.proposals) # {}
    /\ \E k \in LoweringReInits(args.proposals) :
           result.err = [Error("InvalidProtocolVersionInReInit") EXCEPT
                            !.n = args.proposals[k].version,
                            !.m = self.protocol_version]

\* the sender resolves against a tree and the allowed external senders, if any
ResolvesIn(tree, senders, sender) ==
    CASE sender.kind = "Member" ->
            sender.idx \in DOMAIN tree.leaves /\ ~tree.leaves[sender.idx].blank
      [] sender.kind = "External" ->
            senders # None /\ sender.idx < Len(Unwrap(senders))
      [] OTHER -> TRUE

\* the error of a sender that does not resolve
SenderError(senders, sender) ==
    IF sender.kind = "Member" THEN ErrorN("InvalidMemberProposer", sender.idx)
    ELSE IF senders = None THEN Error("ExternalSenderWithoutExternalSendersExtension")
    ELSE ErrorN("InvalidExternalSenderIndex", sender.idx)

\* the allowed external senders of the original group extensions
OriginalExternalSenders ==
    IF "EXTERNAL_SENDERS" \in self.original_group_extensions.types
    THEN Some(self.original_group_extensions.senders)
    ELSE None

\* positions of the proposals of an authorized combination whose sender does
\* not resolve against the original group state
Unresolved(bundle) ==
    {k \in 1..Len(bundle) :
        /\ << bundle[k].sender.kind, bundle[k].type, bundle[k].by_ref >> \in AuthorizationTable
        /\ ~ResolvesIn(args.tree_at_call, OriginalExternalSenders, bundle[k].sender)}

SenderErrors ==
    {"InvalidMemberProposer", "ExternalSenderWithoutExternalSendersExtension",
     "InvalidExternalSenderIndex"}

\* C21: sender resolvability: Member(i) resolves iff leaf i of the original
\* tree is not blank (else InvalidMemberProposer(i)), External(i) iff the
\* original group extensions hold external senders (else
\* ExternalSenderWithoutExternalSendersExtension) and i is below their number
\* (else InvalidExternalSenderIndex(i)), NewMemberCommit and NewMemberProposal
\* always; no proposal of an authorized combination with an unresolved sender
\* is left once the proposers were checked, and one the strategy does not
\* ignore aborts the batch with the error of such a sender.
C21_SenderResolvability ==
    /\ pc = "apply_proposals" =>
           \A tree \in {TreeA, TreeB}, senders \in {None, Some(<< >>), Some(<< 6 >>), Some(<< 6, 9 >>)} :
               \A kind \in SenderKinds, i \in 0..4 :
                   validate_sender(tree, senders, [kind |-> kind, idx |-> i])
                       = IF ResolvesIn(tree, senders, [kind |-> kind, idx |-> i]) THEN Ok
                         ELSE Err(SenderError(senders, [kind |-> kind, idx |-> i]))
    /\ (pc \notin StepsBeforeProposerCheck) => Unresolved(CurrentBundle) = {}
    /\ (Rejected /\ result.at = "filter_out_invalid_proposers"
        /\ result.err.name \in SenderErrors) =>
           \E k \in Unresolved(args.proposals) :
               /\ ~ignore(StrategyInUse, args.proposals[k])
               /\ result.err = SenderError(OriginalExternalSenders, args.proposals[k].sender)
    /\ (Returned /\ \E k \in Unresolved(args.proposals) : ~ignore(StrategyInUse, args.proposals[k])) =>
           /\ Rejected
           /\ result.at \in StepsBeforeProposerCheck

\* a Remove sent by External(1) was turned away where one sender is allowed
C21_Witness ==
    /\ Rejected
    /\ result.at = "filter_out_invalid_proposers"
    /\ OriginalExternalSenders = Some(<< 6 >>)
    /\ Unresolved(args.proposals) # {}
    /\ result.err = ErrorN("InvalidExternalSenderIndex", 1)

\* the steps of a member commit up to the rule on ExternalInit proposals
StepsThroughExternalInit ==
    {MemberSteps[j] : j \in 1..11}

\* positions of the ExternalInit proposals whose failure aborts the batch
AbortingExternalInits(bundle) == NotIgnored(bundle, PositionsOf(bundle, "EXTERNAL_INIT"))

\* C22: no ExternalInit survives a Member commit, whatever its own sender: it
\* fails with InvalidProposalTypeForSender, which drops it when it is by
\* reference under IgnoreInvalidByRefProposal and aborts the batch otherwise.
C22_NoExternalInitFromMember ==
    FromMember =>
        /\ pc \notin StepsThroughExternalInit => CountOf(CurrentBundle, "EXTERNAL_INIT") = 0
        /\ (Returned /\ AbortingExternalInits(args.proposals) # {}) => Rejected
        /\ (Returned /\ Len(args.proposals) = 1 /\ AbortingExternalInits(args.proposals) # {})
               => /\ result.err.name = "InvalidProposalTypeForSender"
                  /\ result.err.ptype = "EXTERNAL_INIT"
                  /\ result.err.by_ref = args.proposals[1].by_ref
        /\ (Rejected /\ result.at = "filter_out_external_init")
               => \E k \in AbortingExternalInits(args.proposals) :
                      result.err = InvalidProposalTypeForSender("EXTERNAL_INIT", args.commit_sender,
                                                                args.proposals[k].by_ref)

\* the ExternalInit of a joiner, committed by a member, was turned away
C22_Witness ==
    /\ Rejected
    /\ FromMember
    /\ result.at = "filter_out_external_init"
    /\ args.proposals = << ExternalInit(NewMemberCommit, FALSE) >>
    /\ result.err = InvalidProposalTypeForSender("EXTERNAL_INIT", args.commit_sender, FALSE)

\* every member of the tree lists the custom proposal type in its capabilities
SupportedBy(tree, ctype) ==
    \A i \in DOMAIN tree.leaves : ~tree.leaves[i].blank => ctype \in tree.leaves[i].props

\* the last step of apply_proposals, run on the state the path returned: its
\* tree is the tree after the updates, removes and adds of the batch and the
\* insertion of the external leaf
C23_Step ==
    pc = "filter_out_unsupported_custom_proposals" =>
        LET state == Loaded(Unwrap(local_state))
            b == state.proposals
            bad == {k \in PositionsOf(b, "CUSTOM") : ~SupportedBy(state.tree, b[k].ctype)}
            fatal == {k \in bad : ~ignore(args.strategy, b[k])}
        IN /\ by_type(b, "CUSTOM") = by_type(args.proposals, "CUSTOM")
           /\ pc' = "done"
           /\ IF fatal # {}
              THEN /\ result'.kind = "Err"
                   /\ result'.err = ErrorInner("UnsupportedCustomProposal", b[Min(fatal)].ctype)
              ELSE /\ result'.kind = "Ok"
                   /\ Unwrap(result'.state).proposals = SubSeqAt(b, (1..Len(b)) \ bad)
                   /\ trees'[Unwrap(result'.state).tree] = state.tree

\* C23: custom proposal supportability: every custom proposal of a returned
\* ProposalState has a type that every member of the resulting tree supports;
\* a custom proposal of another type fails with UnsupportedCustomProposal(type)
\* (dropped when the strategy ignores it, else the batch aborts), and a custom
\* proposal of a supported type is dropped by no rule.
C23_CustomProposalSupportability == [][C23_Step]_vars

\* a custom proposal was turned away because a leaf added by the batch does
\* not support its type, which every member of the original tree supports
C23_Witness ==
    /\ Rejected
    /\ result.at = "filter_out_unsupported_custom_proposals"
    /\ result.err = ErrorInner("UnsupportedCustomProposal", "P")
    /\ SupportedBy(args.tree_at_call, "P")

\* the tree after the Updates among `ups`, from position k on
RECURSIVE UpdatesApplied(_, _, _)
UpdatesApplied(tree, ups, k) ==
    IF k > Len(ups) THEN tree
    ELSE UpdatesApplied(ReplaceLeaf(tree, ups[k].sender.idx, ups[k].leaf), ups, k + 1)

\* the tree after the Removes among `rems`, from position k on
RECURSIVE RemovesApplied(_, _, _)
RemovesApplied(tree, rems, k) ==
    IF k > Len(rems) THEN tree
    ELSE RemovesApplied(ReplaceLeaf(tree, rems[k].to_remove, BlankLeaf), rems, k + 1)

\* the tree and the indexes after the Adds among `adds`, from position k on
RECURSIVE AddsApplied(_, _, _, _)
AddsApplied(tree, indexes, adds, k) ==
    IF k > Len(adds) THEN [tree |-> tree, indexes |-> indexes]
    ELSE LET placed == PlaceLeaf(tree, adds[k].leaf)
         IN AddsApplied(placed.tree, Append(indexes, placed.index), adds, k + 1)

\* all the Updates of a bundle, then all its Removes, then all its Adds: the
\* result depends on the bundle only through its proposals of each kind
InFixedOrder(tree, bundle) ==
    AddsApplied(RemovesApplied(UpdatesApplied(tree, by_type(bundle, "UPDATE"), 1),
                               by_type(bundle, "REMOVE"), 1),
                << >>, by_type(bundle, "ADD"), 1)

\* C24: fixed order of application: the tree of an accepted batch is the
\* original tree after all surviving Updates, then all surviving Removes,
\* then all surviving Adds (then the external leaf of an external commit),
\* however the kinds are interleaved in the bundle; added_indexes are the
\* slots the Adds got in that order, so an Add may get the slot a Remove of
\* the same batch freed.
C24_FixedOrderOfApplication ==
    Accepted =>
        LET edited == InFixedOrder(args.tree_at_call, ReturnedState.proposals)
        IN /\ ReturnedState.added_indexes = edited.indexes
           /\ ReturnedState.tree = IF FromMember THEN edited.tree
                                   ELSE PlaceLeaf(edited.tree, Unwrap(self.external_leaf)).tree

\* an Add placed before the Remove in the bundle got the slot the Remove freed
C24_Witness ==
    /\ Accepted
    /\ Len(ReturnedState.proposals) = 2
    /\ ReturnedState.proposals[1].type = "ADD"
    /\ ReturnedState.proposals[2].type = "REMOVE"
    /\ ReturnedState.added_indexes = << ReturnedState.proposals[2].to_remove >>

\* C25: empty batch: a Member commit of an empty bundle succeeds under both
\* strategies; the returned ProposalState holds the original tree, no
\* proposal, no added index, no removed leaf and no external leaf index.
C25_EmptyBatch ==
    (Returned /\ FromMember /\ args.proposals = << >>) =>
        /\ Accepted
        /\ ReturnedState.tree = args.tree_at_call
        /\ ReturnedState.proposals = << >>
        /\ ReturnedState.added_indexes = << >>
        /\ ReturnedState.removed_leaves = << >>
        /\ ReturnedState.external_leaf_index = None
        /\ trees.original = args.tree_at_call

\* the empty bundle was accepted under IgnoreInvalidByRefProposal in the
\* group that requires capabilities
C25_Witness ==
    /\ Accepted
    /\ FromMember
    /\ args.proposals = << >>
    /\ args.strategy = "IgnoreInvalidByRefProposal"
    /\ self.original_required_capabilities # None

\* the outcome the caller holds: the error, or the ProposalState with its tree
C26_Outcome ==
    [ok |-> result.kind = "Ok", err |-> result.err,
     state |-> {[s EXCEPT !.tree = trees[@]] : s \in result.state}]

\* the outcome of a Result<ProposalState, _>
C26_OutcomeOf(r) == [ok |-> r.ok, err |-> r.err, state |-> IF r.ok THEN Some(r.val) ELSE None]

\* the outcome as a function of the inputs of the call alone
C26_OutcomeOfInputs ==
    C26_OutcomeOf(apply_proposals(self, args.tree_at_call, args.strategy, args.commit_sender,
                                  args.proposals, args.commit_time))

C27_CommitAt(epoch) == {k \in 1..Len(packets) : packets[k].epoch = epoch}

\* a call in which client c handled a commit
C27_Handled(c) ==
    /\ reply'.client = c
    /\ reply'.ok
    /\ reply'.op \in {"apply_pending_commit", "process_incoming_bytes"}

\* what one step does to the epoch of client c
C27_Step(c) ==
    LET before == sessions[c]
        after == sessions'[c]
    IN /\ before.status = "joined" =>
             /\ after.epoch \in {before.epoch, before.epoch + 1}
             /\ after.epoch = before.epoch + 1 <=> C27_Handled(c)
             /\ C27_Handled(c) =>
                    /\ reply'.epoch = after.epoch
                    /\ \E k \in C27_CommitAt(before.epoch) : after.epoch = k
       /\ (before.status = "new" /\ after.status = "joined") =>
             /\ reply'.op = "join_session"
             /\ \E k \in 1..Len(packets) : c \in packets[k].welcome /\ after.epoch = k

\* C27: the group starts at epoch 0 and every commit a member accepts
\* advances that member's epoch by exactly one: handling the k-th commit
\* (apply_pending_commit for its committer, process_incoming_bytes for the
\* others) leaves the member at epoch k, which is the epoch the call reports,
\* and no other call changes an epoch, so epochs never decrease or skip.
C27_EpochAdvancesByOne ==
    [][/\ \A c \in Clients : C27_Step(c)
       /\ \A k \in 1..Len(packets') : packets'[k].epoch = k - 1]_session_vars

\* the third commit of the group, handled by a member that was not its
\* committer, left that member at epoch 3
C27_Witness ==
    /\ reply.op = "process_incoming_bytes"
    /\ reply.ok
    /\ reply.epoch = 3
    /\ sessions[reply.client].epoch = 3
    /\ Len(packets) = 3
    /\ sessions[0].epoch >= 1

\* the members that remain in the group, by their own state
C28_Remaining == {c \in Clients : sessions[c].status = "joined" /\ sessions[c].active}

\* Session::has_equal_state: the same tree and the same epoch state
C28_has_equal_state(c, d) ==
    /\ sessions[c].epoch = sessions[d].epoch
    /\ sessions[c].tree = sessions[d].tree

C29_Committer(c) == sessions[c].status = "joined" /\ sessions[c].pending # None

\* what one step does to a member that holds a pending commit
C29_Step(c) ==
    C29_Committer(c) =>
        /\ (reply'.op = "process_incoming_bytes" /\ reply'.client = c) =>
              /\ ~reply'.ok
              /\ reply'.err = "CantProcessMessageFromSelf"
              /\ sessions'[c] = sessions[c]
        /\ sessions'[c] # sessions[c] =>
              /\ reply'.op = "apply_pending_commit"
              /\ reply'.client = c
              /\ sessions'[c].epoch = sessions[c].epoch + 1
              /\ sessions'[c].pending = None

C30_Blanks(tree) == {i \in DOMAIN tree.leaves : tree.leaves[i].blank}

\* the slots k new leaves are due: the blank slots from the left, then the
\* slots that extend the tree
C30_Slots(tree, k) ==
    LET blanks == SeqOfSet(C30_Blanks(tree))
        n == LeafCount(tree)
    IN [j \in 1..k |-> IF j <= Len(blanks) THEN blanks[j] ELSE n + (j - Len(blanks)) - 1]

\* the lists of one or two key packages of clients that hold no leaf of the tree
C30_Inputs(tree) ==
    LET fresh == {gen_key_package(c) : c \in {c \in Clients :
                     \A i \in non_empty_leaves(tree) : tree.leaves[i].sid # c}}
    IN {<< a >> : a \in fresh} \cup {ab \in fresh \X fresh : ab[1] # ab[2]}

\* add_leaves on a tree: the indices returned, and the tree it leaves
C30_AddLeaves(tree, leaves, r) ==
    /\ r.ok
    /\ r.indexes = C30_Slots(tree, Len(leaves))
    /\ \A j \in 1..Len(leaves) : r.tree.leaves[r.indexes[j]] = leaves[j]
    /\ \A i \in non_empty_leaves(tree) : r.tree.leaves[i] = tree.leaves[i]
    /\ non_empty_leaves(r.tree) = non_empty_leaves(tree) \cup {r.indexes[j] : j \in 1..Len(leaves)}
    /\ Len(leaves) <= Cardinality(C30_Blanks(tree)) => LeafCount(r.tree) = LeafCount(tree)

\* the founder's commit of by-value Adds on the tree derive built
C30_FounderAdds(session) ==
    (session.epoch = 0 /\ session.pending # None) =>
        LET new == Unwrap(session.pending)
            k == Len(new.added_indexes)
        IN /\ session.tree = derive(FounderLeaf)
           /\ new.added_indexes = [j \in 1..k |-> j]
           /\ k = Cardinality(packets[1].welcome)
           /\ \A j \in 1..k : new.tree.leaves[j] = packets[1].proposals[j].leaf
           /\ k = 1 => LeafCount(new.tree) = 2

\* the ProposalState of the founder adding one client by a by-value Add
C30_CreateAndAdd(session, c, r) ==
    /\ r.ok
    /\ r.val.added_indexes = << 1 >>
    /\ r.val.tree.leaves[1] = gen_key_package(c)
    /\ r.val.tree.leaves[0] = session.tree.leaves[0]
    /\ LeafCount(r.val.tree) = 2

\* C30: index assignment of added leaves: derive places the founder's leaf at
\* index 0; add_leaves assigns the leftmost blank slots in input order,
\* extends the tree only when no blank slot is left, returns the assigned
\* indices in input order and leaves the existing leaves as they are; on the
\* one-member tree adding k leaves assigns 1..k in order, so the founder
\* adding one client by a by-value Add yields added_indexes = [1] and keeps
\* the founder's leaf.
C30_IndexAssignment ==
    /\ \A c \in Clients :
          (sessions[c].status = "joined" /\ sessions[c].epoch = 0) =>
              /\ sessions[c].leaf_index = 0
              /\ non_empty_leaves(sessions[c].tree) = {0}
              /\ sessions[c].tree.leaves[0] = FounderLeaf
    /\ C30_FounderAdds(sessions[0])
    /\ reply.op = "create_session" =>
          \A c \in Clients \ {0}, strategy \in Strategies :
              C30_CreateAndAdd(sessions[0], c,
                  apply_member_commit(sessions[0], strategy, Member(0),
                      << AddProposal(Member(0), FALSE, gen_key_package(c)) >>))
    /\ reply.op \in {"create_session", "apply_pending_commit"} =>
          \A leaves \in C30_Inputs(sessions[reply.client].tree) :
              C30_AddLeaves(sessions[reply.client].tree, leaves,
                            add_leaves(sessions[reply.client].tree, leaves))

\* the founder added one client by a by-value Add: added_indexes is [1]
C30_Witness ==
    /\ sessions[0].epoch = 0
    /\ sessions[0].pending # None
    /\ Unwrap(sessions[0].pending).added_indexes = << 1 >>
    /\ Len(packets[1].proposals) = 1
    /\ packets[1].proposals[1].type = "ADD"
    /\ ~packets[1].proposals[1].by_ref
    /\ Unwrap(sessions[0].pending).tree.leaves[1] = packets[1].proposals[1].leaf

\* the call on the provider has returned r
IdentityReturned(op) == identity_call.op = op /\ identity_result # None

\* C31: BasicIdentityProvider.validate_member and validate_external_sender
\* succeed exactly when the signing identity carries a basic credential,
\* whatever the timestamp, the extensions and the signature public key are;
\* for any other credential the error carries that credential's type.
C31_ValidateMember ==
    (IdentityReturned("validate_member") \/ IdentityReturned("validate_external_sender")) =>
        LET credential == Unwrap(identity_call.signing_identity).credential
            r == Unwrap(identity_result)
        IN /\ r.ok <=> credential.type = "BASIC"
           /\ ~r.ok => r.err = BasicIdentityProviderError(credential.type)

\* a custom credential was turned away at a time and with extensions given
C31_Witness ==
    /\ IdentityReturned("validate_member")
    /\ Unwrap(identity_call.signing_identity).credential.type = "CUSTOM"
    /\ identity_call.timestamp # None
    /\ identity_call.extensions # None
    /\ ~Unwrap(identity_result).ok
    /\ Unwrap(identity_result).err.credential_type = "CUSTOM"

\* the ProposalState the tree-changes phase is about to run on
StateAtCall == Loaded(Unwrap(local_state))

\* the ProposalState the step has left
StateLeft == [Unwrap(local_state') EXCEPT !.tree = trees'[@]]

\* the first group-context-extensions proposal of the state at the call
GceAtCall == Unwrap(group_context_extensions_proposal(StateAtCall.proposals))

\* the call takes the capability-switch flow
CapabilitySwitch ==
    /\ pc = "apply_proposal_changes"
    /\ group_context_extensions_proposal(StateAtCall.proposals) # None
    /\ get_as_required_capabilities(GceAtCall.ext).ok

\* the attempt with the new capabilities
FirstAttempt ==
    apply_tree_changes(StrategyInUse, StateAtCall, ExtensionList_new, None, args.commit_time)

\* the check of the tree the attempt left against the proposal
SupportAfter(attempt) ==
    And(new_capabilities_supported(attempt.val.tree,
                                   get_as_required_capabilities(GceAtCall.ext).val),
        new_extensions_supported(attempt.val.tree, GceAtCall.ext))

\* the attempt went through and the tree it left fails the check
CheckFailed == CapabilitySwitch /\ FirstAttempt.ok /\ ~SupportAfter(FirstAttempt).ok

\* the tree-changes phase on the snapshot, without the proposal, under the
\* group's original extensions and required capabilities
Retry ==
    apply_tree_changes(StrategyInUse,
        [StateAtCall EXCEPT !.proposals = clear_group_context_extensions(@)],
        self.original_group_extensions, self.original_required_capabilities,
        args.commit_time)

\* the step returns what r is
C32_Returns(r) ==
    IF r.ok
    THEN /\ pc' # "done"
         /\ StateLeft = r.val
         /\ PositionsOf(StateLeft.proposals, "GROUP_CONTEXT_EXTENSIONS") = {}
    ELSE /\ pc' = "done"
         /\ result'.kind = "Err"
         /\ result'.err = r.err

C32_Step ==
    CheckFailed =>
        IF ~ignore(StrategyInUse, GceAtCall)
        THEN /\ pc' = "done"
             /\ result'.kind = "Err"
             /\ result'.err = SupportAfter(FirstAttempt).err
        ELSE C32_Returns(Retry)

\* C32: capability-switch fallback: when the tree the attempt with the new
\* capabilities left fails the required-capabilities or extension-support
\* check, the error is returned unless the strategy ignores the
\* group-context-extensions proposal; if it does, what is returned holds no
\* group-context-extensions proposal and is what the tree-changes phase
\* returns on the snapshot taken before the attempt, under the original
\* extensions and required capabilities, also when the group had neither.
C32_CapabilitySwitchFallback == [][C32_Step]_vars

\* the proposal was ignored in a group with extensions of its own, and the
\* retry kept less than the attempt had
C32_Witness ==
    /\ pc = "filter_out_unsupported_custom_proposals"
    /\ FromMember
    /\ ~ExtensionList_is_empty(self.original_group_extensions)
    /\ PositionsOf(args.proposals, "GROUP_CONTEXT_EXTENSIONS") # {}
    /\ PositionsOf(args.proposals, "ADD") # {}
    /\ Unwrap(local_state).proposals = << >>

\* the leaves of the Updates and the key packages of the Adds of the state at
\* the call, validated against the required capabilities and the extensions
\* of the group-context-extensions proposal
ValidatedAgainstNew ==
    validate_new_nodes(StrategyInUse, StateAtCall, GceAtCall.ext,
                       get_as_required_capabilities(GceAtCall.ext).val, args.commit_time)

C33_Step ==
    CapabilitySwitch =>
        IF ~ValidatedAgainstNew.ok
        THEN /\ pc' = "done"
             /\ result'.kind = "Err"
             /\ result'.err = ValidatedAgainstNew.err
        ELSE pc' # "done" =>
                 \A T \in {"UPDATE", "ADD"} :
                     IsSubSeq(by_type(StateLeft.proposals, T),
                              by_type(ValidatedAgainstNew.val.proposals, T))

\* C33: in the capability-switch flow the leaves of the batch's Updates and
\* the key packages of its Adds are validated against the required
\* capabilities and the non-default extensions of the
\* group-context-extensions proposal: an Update or Add whose leaf does not
\* support them fails with its own error, or is dropped if the strategy
\* ignores it, and never survives the step.
C33_ValidatedAgainstNewCapabilities == [][C33_Step]_vars

\* what is done to a proposal: it is checked, flagged, rejected or dropped
FilterKinds == {"rule", "validate", "flag", "reject", "drop"}

\* rule 12 runs on the tree the tree-changes phase has left
Rule12 == "filter_out_unsupported_custom_proposals"

\* the positions of the trace at which the working tree is edited
EditsOf(t) == {k \in 1..Len(t) : t[k].kind = "edit"}

\* C34 as stated: once an edit of the working tree has started, nothing but
\* rule 12 checks, flags, rejects or drops a proposal.
C34_Original ==
    \A i \in EditsOf(trace) : \A j \in (i + 1)..Len(trace) :
        trace[j].kind \in FilterKinds => trace[j].at = Rule12

\* what may still be done to a proposal when an edit has started
AfterAnEdit ==
    {Ev("flag", "batch_edit"), Ev("reject", "batch_edit"), Ev("drop", "apply_tree_changes"),
     Ev("validate", "check_new_capabilities"), Ev("reject", "check_new_capabilities"),
     Ev("drop", "check_new_capabilities"), Ev("rule", Rule12)}

\* the positions from which the retry of the capability switch runs
RetryOf(t) == {k \in 1..Len(t) : t[k] = Ev("drop", "check_new_capabilities")}

\* C34: filter work precedes tree edits: rules 1-11 and the first validation
\* of the leaves of Updates and Adds are complete before the first edit of
\* the working tree; once an edit has started, a proposal is flagged or
\* rejected only on the outcome of the batch edit, dropped as the batch edit
\* flagged it, rejected or dropped by the capability check on the edited
\* tree, validated again by the retry that follows such a drop, or handled
\* by rule 12.
C34_FilterWorkPrecedesEdits ==
    \A i \in EditsOf(trace) :
        /\ \E h \in 1..(i - 1) : trace[h] = Ev("validate", "validate_new_nodes")
        /\ \A j \in (i + 1)..Len(trace) :
               trace[j].kind \in FilterKinds =>
                   \/ trace[j] \in AfterAnEdit
                   \/ /\ trace[j].at \in {"validate_new_nodes", "retain_by_type"}
                      /\ \E r \in RetryOf(trace) : i < r /\ r < j

\* a leaf was added, the capability check on the edited tree dropped the
\* group-context-extensions proposal, and the retry validated and edited again
C34_Witness ==
    /\ pc = "filter_out_unsupported_custom_proposals"
    /\ \E i, r, v, e \in 1..Len(trace) :
           /\ i < r /\ r < v /\ v < e
           /\ trace[i] = Ev("edit", "batch_edit")
           /\ trace[r] = Ev("drop", "check_new_capabilities")
           /\ trace[v] = Ev("validate", "validate_new_nodes")
           /\ trace[e] = Ev("edit", "batch_edit")

\* the leaves the Removes of a bundle target
RemoveTargets(bundle) == {bundle[k].to_remove : k \in PositionsOf(bundle, "REMOVE")}

\* the leaves the Updates of Members in a bundle replace
UpdateSenders(bundle) ==
    {bundle[k].sender.idx : k \in {j \in PositionsOf(bundle, "UPDATE") :
                                      bundle[j].sender.kind = "Member"}}

\* positions of the Updates sent by the Member whose leaf a Remove targets
UpdatesByRemoved(bundle) ==
    {k \in PositionsOf(bundle, "UPDATE") :
        bundle[k].sender.kind = "Member" /\ bundle[k].sender.idx \in RemoveTargets(bundle)}

\* the one-proposal-per-leaf rule, seen from a leaf that is removed and updated
C35_Step ==
    (pc = "filter_out_extra_removal_or_update_for_same_leaf"
     /\ UpdatesByRemoved(local_proposals) # {}) =>
        LET b == local_proposals
            fatal == NotIgnored(b, UpdatesByRemoved(b))
            others == NotIgnored(b, LaterRemoves(b) \cup EarlierUpdates(b))
        IN IF fatal # {}
           THEN /\ pc' = "done"
                /\ result'.kind = "Err"
                /\ result'.err.name = "MoreThanOneProposalForLeaf"
                /\ (\A o \in others : Min(fatal) < o /\ b[o].type = "UPDATE")
                       => result'.err.n = b[Min(fatal)].sender.idx
           ELSE pc' # "done" =>
                    /\ RemoveTargets(local_proposals') = RemoveTargets(b)
                    /\ UpdateSenders(local_proposals') \cap RemoveTargets(b) = {}

\* what the caller of an accepted member commit holds
C35_Return ==
    (pc' = "done" /\ FromMember /\ result'.kind = "Ok") =>
        UpdateSenders(Unwrap(result'.state).proposals)
            \cap RemoveTargets(Unwrap(result'.state).proposals) = {}

\* C35: no leaf is both updated and removed by one accepted Member commit:
\* when a batch holds a Remove targeting leaf i and an Update sent by
\* Member(i), the Remove is kept and the Update fails with
\* MoreThanOneProposalForLeaf(i), or is dropped if the strategy ignores it,
\* so the leaves of the surviving Updates and the targets of the surviving
\* Removes are disjoint.
C35_NotUpdatedAndRemoved == [][C35_Step /\ C35_Return]_vars

\* the Update of a leaf the batch removes was dropped and the Remove kept
C35_Witness ==
    /\ pc = "filter_out_invalid_psks"
    /\ FromMember
    /\ Len(args.proposals) = 2
    /\ UpdatesByRemoved(args.proposals) # {}
    /\ Len(local_proposals) = 1
    /\ local_proposals[1].type = "REMOVE"

\* the bundle without the proposals at the positions K, the rest as it was
Without(bundle, K) == SubSeqAt(bundle, (1..Len(bundle)) \ K)

\* positions of the PSK proposals that fail a check of the PSK rule
FlaggedPsks(bundle) == {k \in PositionsOf(bundle, "PSK") : ~PskPasses(bundle, k)}

\* positions of the group-context-extensions proposals whose external senders
\* do not decode or do not verify
FlaggedGroupExtensions(bundle) ==
    {k \in PositionsOf(bundle, "GROUP_CONTEXT_EXTENSIONS") :
        LET got == get_as_external_senders(bundle[k].ext)
        IN ~got.ok \/ (got.val # None /\ ~verify_all(Unwrap(got.val), args.commit_time).ok)}

\* positions of the Updates whose leaf fails validation in the given context
FlaggedUpdates(bundle, extensions, required_capabilities) ==
    {k \in PositionsOf(bundle, "UPDATE") :
        ~And(LeafNodeValidator_check_if_valid(bundle[k].leaf, "Update", required_capabilities,
                                              args.commit_time),
             leaf_supports_extensions(bundle[k].leaf, extensions)).ok}

\* positions of the Adds whose key package fails validation in the given context
FlaggedAdds(bundle, extensions, required_capabilities) ==
    {k \in PositionsOf(bundle, "ADD") :
        ~And(KeyPackageValidator_check_if_valid(bundle[k].leaf, required_capabilities,
                                                args.commit_time),
             leaf_supports_extensions(bundle[k].leaf, extensions)).ok}

\* positions of the proposals the batch edit reported invalid
FlaggedByEdit(bundle, acc) ==
    {PositionOfIndex(bundle, "UPDATE", i) : i \in acc.invalid_updates}
    \cup {PositionOfIndex(bundle, "REMOVE", i) : i \in acc.invalid_removals}
    \cup {PositionOfIndex(bundle, "ADD", i) : i \in acc.invalid_additions}

\* the validation passes of the tree-changes phase on a state, in a context
C36_ValidationPasses(state, extensions, required_capabilities) ==
    LET updates == validate_new_update_nodes(StrategyInUse, state, extensions,
                                             required_capabilities, args.commit_time)
        adds == validate_new_key_packages(StrategyInUse, state, extensions,
                                          required_capabilities, args.commit_time)
    IN /\ updates.ok => updates.val.proposals =
              Without(state.proposals,
                      FlaggedUpdates(state.proposals, extensions, required_capabilities))
       /\ adds.ok => adds.val.proposals =
              Without(state.proposals,
                      FlaggedAdds(state.proposals, extensions, required_capabilities))

\* the removal of what the batch edit on a state reported invalid
C36_EditPass(state, edit) ==
    edit.ok => remove_invalid(state.proposals, edit.acc) =
                   Without(state.proposals, FlaggedByEdit(state.proposals, edit.acc))

C36_Step ==
    /\ (pc = "filter_out_invalid_psks" /\ pc' # "done") =>
           local_proposals' = Without(local_proposals, FlaggedPsks(local_proposals))
    /\ (pc = "filter_out_invalid_group_extensions" /\ pc' # "done") =>
           local_proposals' = Without(local_proposals, FlaggedGroupExtensions(local_proposals))
    /\ pc = "apply_proposal_changes" =>
           /\ C36_ValidationPasses(StateAtCall, ExtensionList_new, None)
           /\ C36_ValidationPasses(StateAtCall, self.original_group_extensions,
                                   self.original_required_capabilities)
           /\ C36_EditPass(StateAtCall,
                  batch_edit(StateAtCall.tree,
                             TreeBatchEditAccumulator_new(StrategyInUse, StateAtCall.proposals),
                             updates_of(StateAtCall.proposals),
                             removals_of(StateAtCall.proposals),
                             additions_of(StateAtCall.proposals)))
    /\ pc' # "done" => \A T \in ProposalTypes :
           IsSubSeq(by_type(CurrentBundle', T), by_type(CurrentBundle, T))

\* C36: stable removal: every pass that drops proposals by per-type index
\* (PSK, group-context-extensions, update-leaf validation, key-package
\* validation, and what the batch tree edit reported invalid) removes exactly
\* the flagged proposals, and the bundle a step leaves is a sub-sequence of
\* the bundle it found: nothing is added, duplicated, altered or reordered
\* within its type.
C36_StableRemoval == [][C36_Step]_vars

\* both PSK proposals of a bundle were flagged and both have left it
C36_Witness ==
    /\ pc \in {"filter_out_invalid_group_extensions", "ProposalState_new"}
    /\ Len(args.proposals) = 2
    /\ FlaggedPsks(args.proposals) = {1, 2}
    /\ local_proposals = << >>

\* the indexes a state records as added
AddedSlots(state) == {state.added_indexes[k] : k \in 1..Len(state.added_indexes)}

\* one entry of added_indexes per Add of the bundle, in bundle order, the
\* tree holding the leaf of that Add at that index
AddsRecorded(state) ==
    LET adds == by_type(state.proposals, "ADD")
    IN /\ Len(state.added_indexes) = Len(adds)
       /\ \A k \in 1..Len(adds) :
              /\ state.added_indexes[k] \in DOMAIN state.tree.leaves
              /\ state.tree.leaves[state.added_indexes[k]] = adds[k].leaf

\* one entry of removed_leaves per Remove of the bundle, in bundle order:
\* the target and the leaf the tree of the call held there
RemovesRecorded(state) ==
    LET removes == by_type(state.proposals, "REMOVE")
    IN /\ Len(state.removed_leaves) = Len(removes)
       /\ \A k \in 1..Len(removes) :
              /\ get_leaf_node(args.tree_at_call, removes[k].to_remove).ok
              /\ state.removed_leaves[k] =
                     [index |-> removes[k].to_remove,
                      leaf |-> args.tree_at_call.leaves[removes[k].to_remove]]

\* the slot of every removed leaf is blank unless an Add took it
RemovedSlotsBlank(state) ==
    \A k \in 1..Len(state.removed_leaves) :
        \/ state.tree.leaves[state.removed_leaves[k].index].blank
        \/ state.removed_leaves[k].index \in AddedSlots(state)

\* the tree-changes phase has just returned its state
AfterTreeChanges ==
    /\ local_state # None
    /\ \/ FromMember /\ pc = "filter_out_unsupported_custom_proposals"
       \/ FromNewMember /\ pc = "insert_external_leaf"

\* C37: result bookkeeping matches the survivors: every returned
\* ProposalState has one entry of added_indexes per surviving Add, in bundle
\* order, with that Add's leaf at that index of the tree, and one entry of
\* removed_leaves per surviving Remove, pairing its target with the leaf the
\* original tree held there; in the state the tree-changes phase produced
\* the slot of a removed leaf is blank unless an Add of the batch reused it.
C37_ResultBookkeeping ==
    /\ Accepted => AddsRecorded(ReturnedState) /\ RemovesRecorded(ReturnedState)
    /\ AfterTreeChanges =>
           /\ AddsRecorded(StateAtCall)
           /\ RemovesRecorded(StateAtCall)
           /\ RemovedSlotsBlank(StateAtCall)

\* a commit was accepted whose Add took the slot of the leaf its Remove
\* freed, with both recorded
C37_Witness ==
    /\ Accepted
    /\ Len(ReturnedState.added_indexes) = 1
    /\ Len(ReturnedState.removed_leaves) = 1
    /\ ReturnedState.removed_leaves[1].index = ReturnedState.added_indexes[1]
    /\ AddsRecorded(ReturnedState)
    /\ RemovesRecorded(ReturnedState)

\* both signing identities of the call carry a basic credential
BothBasic(p, s) == p.credential.type = "BASIC" /\ s.credential.type = "BASIC"

\* C38: BasicIdentityProvider.valid_successor returns Ok(true) exactly when
\* both signing identities carry basic credentials and the credentials are
\* equal, Ok(false) when both are basic and differ, and an error when either
\* is not basic; the answer is the same with the two identities exchanged,
\* is Ok(true) for an identity and itself, and does not depend on the
\* signature public keys; ensure_removal_is_for_self with this provider
\* accepts exactly the removal of an occupied leaf whose basic credential is
\* the joiner's own basic credential.
C38_ValidSuccessor ==
    /\ IdentityReturned("valid_successor") =>
           LET p == Unwrap(identity_call.signing_identity)
               s == Unwrap(identity_call.successor)
               r == Unwrap(identity_result)
               swapped == BasicIdentityProvider_valid_successor(s, p)
           IN /\ r.ok <=> BothBasic(p, s)
              /\ r.ok => (r.val <=> p.credential = s.credential)
              /\ (BothBasic(p, s) /\ p = s) => (r.ok /\ r.val)
              /\ swapped.ok = r.ok
              /\ r.ok => swapped.val = r.val
              /\ ~r.ok => r.err \in {BasicIdentityProviderError(p.credential.type),
                                     BasicIdentityProviderError(s.credential.type)}
    /\ IdentityReturned("ensure_removal_is_for_self") =>
           LET joiner == Unwrap(identity_call.successor)
               i == identity_call.to_remove
               roster == identity_call.roster
               r == Unwrap(identity_result)
           IN r.ok <=> /\ i \in DOMAIN roster
                       /\ roster[i] # None
                       /\ BothBasic(Unwrap(roster[i]), joiner)
                       /\ Unwrap(roster[i]).credential = joiner.credential

\* a successor with the credential of its predecessor and another signature
\* key was accepted
C38_Witness ==
    /\ IdentityReturned("valid_successor")
    /\ BothBasic(Unwrap(identity_call.signing_identity), Unwrap(identity_call.successor))
    /\ Unwrap(identity_call.signing_identity).credential = Unwrap(identity_call.successor).credential
    /\ Unwrap(identity_call.signing_identity).signature_key # Unwrap(identity_call.successor).signature_key
    /\ Unwrap(identity_result).ok
    /\ Unwrap(identity_result).val

\* the MLSContentTBS is there
TbsBuilt == tbs_value # None

\* the bytes of the MLSContentTBS have been read back
TbsReadBack == tbs_back # None

\* C39: signed message content binds the group context by sender kind: the
\* MLSContentTBS from_plaintext builds carries the supplied group context
\* when the sender is Member or NewMemberCommit and none when it is External
\* or NewMemberProposal, whatever was supplied; its wire format is Cipher iff
\* encrypted; tls_deserialize reads a group context exactly for Member and
\* NewMemberCommit senders, so the bytes of a value read back as an equal
\* value iff the value has a context exactly for those senders.
C39_ContextBySenderKind ==
    /\ (tbs_call.op = "from_plaintext" /\ TbsBuilt) =>
           LET plaintext == Unwrap(tbs_call.plaintext)
               tbs == Unwrap(tbs_value)
           IN /\ tbs.content = plaintext.content
              /\ tbs.wire_format = "Cipher" <=> tbs_call.encrypted
              /\ tbs.wire_format \in {"Plain", "Cipher"}
              /\ plaintext.content.sender.kind \in {"Member", "NewMemberCommit"} =>
                     tbs.context = tbs_call.group_context
              /\ plaintext.content.sender.kind \in {"External", "NewMemberProposal"} =>
                     tbs.context = None
    /\ TbsReadBack =>
           LET tbs == Unwrap(tbs_value)
               back == Unwrap(tbs_back)
               bound == tbs.content.sender.kind \in {"Member", "NewMemberCommit"}
           IN /\ back.ok => (back.val.context # None <=> bound)
              /\ (back.ok /\ back.val = tbs) <=> (tbs.context # None <=> bound)

\* an external sender's plaintext was given a group context, the value built
\* carries none, and its bytes read back as the same value
C39_Witness ==
    /\ tbs_call.op = "from_plaintext"
    /\ Unwrap(tbs_call.plaintext).content.sender.kind = "External"
    /\ tbs_call.group_context # None
    /\ tbs_call.encrypted
    /\ TbsReadBack
    /\ Unwrap(tbs_value).context = None
    /\ Unwrap(tbs_back).ok
    /\ Unwrap(tbs_back).val = Unwrap(tbs_value)

\* the calls that answered with a state id
ReturnedStateId(r) ==
    rpcs[r].kind \in {"create_group", "join_group"} /\ rpcs[r].reply.status = "Ok"

\* every state id handed out is the position of the session its call pushed,
\* and no two calls got the same one
C40_StateIds ==
    /\ \A r \in RpcIds : ReturnedStateId(r) =>
           /\ rpcs[r].reply.id \in 1..Len(sessions_mutex.data)
           /\ sessions_mutex.data[rpcs[r].reply.id].made_by = r
    /\ \A r1, r2 \in RpcIds :
           (r1 # r2 /\ ReturnedStateId(r1) /\ ReturnedStateId(r2)) =>
               rpcs[r1].reply.id # rpcs[r2].reply.id

\* while a handler has not left, some handler can take a step; no handler
\* holds the sessions lock while it waits for the clients lock
C40_NoDeadlock ==
    /\ (\E r \in RpcIds : rpcs[r].pc # "done") => ENABLED HarnessNext
    /\ \A r \in RpcIds : rpcs[r].pc = "lock_clients" => sessions_mutex.owner # r

\* a step keeps every session where it is
C40_Step ==
    /\ Len(sessions_mutex.data) <= Len(sessions_mutex'.data)
    /\ \A k \in 1..Len(sessions_mutex.data) :
           sessions_mutex'.data[k].made_by = sessions_mutex.data[k].made_by

\* C40: test-harness state ids under concurrent RPCs: sessions are only ever
\* appended; each create_group or join_group call that answers returns as
\* state_id the 1-based position of the session this very call appended, so
\* no two calls return the same state_id and a state_id designates the same
\* session in every later state; and in no interleaving of the handlers do
\* the handlers that have not left all wait for the clients and sessions
\* locks.
C40_StateIdsUnderConcurrency ==
    /\ [](C40_StateIds /\ C40_NoDeadlock)
    /\ [][C40_Step]_harness_vars

\* a join_group and a create_group ran side by side and both answered, the
\* join_group with state id 1 and the create_group with state id 2,
\* each designating its own session
C40_Witness ==
    \E r1, r2, r3 \in RpcIds :
        /\ rpcs[r1].kind = "create_key_package"
        /\ rpcs[r2].kind = "join_group" /\ ReturnedStateId(r2) /\ rpcs[r2].reply.id = 1
        /\ rpcs[r3].kind = "create_group" /\ ReturnedStateId(r3) /\ rpcs[r3].reply.id = 2
        /\ sessions_mutex.data[1].made_by = r2
        /\ sessions_mutex.data[2].made_by = r3

====
